---- MODULE Spec2Model ----
(***************************************************************************)
(* A model of go-peggy's peggyvm package: the instruction codec            *)
(* (ImmMeta.Encode / ImmMeta.Decode / Op.Decode), the execution engine     *)
(* (Execution.Step / Run / fail) and the assembler's placement solver      *)
(* (Assembler.Fix).                                                        *)
(*                                                                         *)
(* Go's uint64 does not fit TLC's integers, so a uint64 is the tuple of    *)
(* its eight bytes, least significant first, and the arithmetic the code   *)
(* does on it (+, -, <, |, ^) is done on those bytes, modulo 2^64.         *)
(***************************************************************************)
EXTENDS Integers, Sequences, FiniteSets, TLC

VARIABLES
    \* --- codec harness: one instruction through Encode and Decode
    cpc,        \* "input" | "encoded" | "decoded"
    cOp,        \* the instruction handed to the encoder: [Code, Imm0, Imm1, Imm2]
    cBytes,     \* the bytes OpMeta.Encode produced
    cDec,       \* the Op that Op.Decode filled in from cBytes at address 0
    \* --- one Execution (execution.go) and its caller
    P,          \* Execution.P: [Bytes, Literals, ByteSets, Captures]
    I,          \* Execution.I: the input bytes
    DP,         \* Execution.DP
    XP,         \* Execution.XP
    KS,         \* Execution.KS: sequence of Assignment [DP, Index, IsEnd]
    CS,         \* Execution.CS: sequence of Frame [IsChoice, DP, XP, KS]
    R,          \* Execution.R
    mode,       \* "idle" | "inRun" (inside Run's loop) | "crashed" (a panic unwound) | "done" | "off"
    caller,     \* who drives the Execution: "user" (Step and Run) | "Match" (Program.Match)
    ret,        \* what the last Step or Run returned (or that it panicked)
    last,       \* the last Step call: the Op it decoded and the Execution it started from
    runPre,     \* the Execution as it was when Run was last entered
    result,     \* the Result Program.Match built from the final KS
    \* --- one Assembler (assembler.go) and its caller
    asm,        \* the Assembler: [Items, List, LabelsByName, Queue, Panic]
    apc,        \* "emit" | "reason" | "jiggle" | "place" | "check" (the loops of Fix) | "done" | "crashed" | "off"
    aJ,         \* the List index the second loop of Fix is at
    aProg,      \* the Program Finish returned: [Chunks, Labels]
    \* --- one function of the packages called on its own
    fn,         \* the function under call: "ImmMeta" | "Op.Decode" | ... | "off"
    arg,        \* its arguments
    res         \* what it returned so far

cvars == <<cpc, cOp, cBytes, cDec>>
xvars == <<P, I, DP, XP, KS, CS, R, mode, caller, ret, last, runPre, result>>
avars == <<asm, apc, aJ, aProg>>
fvars == <<fn, arg, res>>

vars == <<cpc, cOp, cBytes, cDec, P, I, DP, XP, KS, CS, R, mode, caller, ret, last, runPre, result,
          asm, apc, aJ, aProg, fn, arg, res>>

----------------------------------------------------------------------------
(* uint64 as eight bytes, little endian *)

Zero64 == <<0, 0, 0, 0, 0, 0, 0, 0>>
One64 == <<1, 0, 0, 0, 0, 0, 0, 0>>
allbits == <<255, 255, 255, 255, 255, 255, 255, 255>>
highbit == <<0, 0, 0, 0, 0, 0, 0, 128>>

\* uint64(n) for a Go int / uint n that TLC can hold (0 <= n < 2^31)
U64(n) ==
    <<n % 256, (n \div 256) % 256, (n \div 65536) % 256, (n \div 16777216) % 256,
      0, 0, 0, 0>>

\* a uint64 is Small when it is below 2^31; ToNat is then its value
Small(w) == w[5] = 0 /\ w[6] = 0 /\ w[7] = 0 /\ w[8] = 0 /\ w[4] < 128
ToNat(w) == w[1] + 256 * w[2] + 65536 * w[3] + 16777216 * w[4]

\* (the operands of the word operations are bound by a quantifier, so that an
\* operand that is itself a computation is computed once)
LT64(a, b) ==
    \E x \in {a}, y \in {b} :
        \E i \in 1..8 : x[i] < y[i] /\ \A j \in (i + 1)..8 : x[j] = y[j]
LE64(a, b) == a = b \/ LT64(a, b)

RECURSIVE Carry(_, _, _)
\* the carry out of byte i of a + b
Carry(a, b, i) == IF i = 0 THEN 0 ELSE (a[i] + b[i] + Carry(a, b, i - 1)) \div 256

\* a + b modulo 2^64
Add64(a, b) ==
    CHOOSE sum \in { [i \in 1..8 |-> (x[i] + y[i] + Carry(x, y, i - 1)) % 256] :
                        x \in {a}, y \in {b} } : TRUE

\* ^a
Not64(a) == CHOOSE n \in { [i \in 1..8 |-> 255 - x[i]] : x \in {a} } : TRUE

\* a - b modulo 2^64
Sub64(a, b) == Add64(a, Add64(Not64(b), One64))

\* a | b on single bytes
ByteOr(a, b) ==
    LET o(k) == IF (a \div (2 ^ k)) % 2 = 1 \/ (b \div (2 ^ k)) % 2 = 1 THEN 2 ^ k ELSE 0
    IN  o(0) + o(1) + o(2) + o(3) + o(4) + o(5) + o(6) + o(7)

\* int64 as sign and magnitude: [neg, mag], mag = uint64(-s) when s < 0
\* u2s converts a 2's complement uint64 to an int64
u2s(v) ==
    CHOOSE s \in { IF x[8] >= 128
                   THEN [neg |-> TRUE, mag |-> Add64(Not64(x), One64)]
                   ELSE [neg |-> FALSE, mag |-> x] : x \in {v} } : TRUE

\* s2u converts an int64 (here a TLC integer) to a 2's complement uint64
s2u(n) == IF n < 0 THEN Not64(Sub64(U64(-n), One64)) ELSE U64(n)

----------------------------------------------------------------------------
(* opcodes and immediate metadata *)

OpNOP == 0
OpCHOICE == 1
OpCOMMIT == 2
OpFAIL == 3
OpANYB == 4
OpSAMEB == 5
OpLITB == 6
OpMATCHB == 7
OpJMP == 8
OpCALL == 10
OpRET == 11
OpTANYB == 12
OpTSAMEB == 13
OpTLITB == 14
OpTMATCHB == 15
OpPCOMMIT == 16
OpBCOMMIT == 17
OpSPANB == 18
OpFAIL2X == 19
OpRWNDB == 20
OpFCAP == 21
OpBCAP == 22
OpECAP == 23
OpGIVEUP == 62
OpEND == 63

immSigned == {"ImmSint", "ImmCodeOffset"}
Signed(t) == t \in immSigned

none == [Type |-> "ImmNone", Required |-> FALSE, PackedDefault |-> 0]
required(t) == [Type |-> t, Required |-> TRUE, PackedDefault |-> 0]
optional(t, b) == [Type |-> t, Required |-> FALSE, PackedDefault |-> b]

OpMetaOf(code, name, i0, i1, i2) ==
    [Code |-> code, Illegal |-> FALSE, Imm0 |-> i0, Imm1 |-> i1, Imm2 |-> i2, Name |-> name]

opMeta == <<
    OpMetaOf(OpNOP, "NOP", none, none, none),
    OpMetaOf(OpCHOICE, "CHOICE", required("ImmCodeOffset"), none, none),
    OpMetaOf(OpCOMMIT, "COMMIT", required("ImmCodeOffset"), none, none),
    OpMetaOf(OpFAIL, "FAIL", none, none, none),
    OpMetaOf(OpANYB, "ANYB", optional("ImmCount", 1), none, none),
    OpMetaOf(OpSAMEB, "SAMEB", required("ImmByte"), optional("ImmCount", 1), none),
    OpMetaOf(OpLITB, "LITB", required("ImmLiteralIdx"), none, none),
    OpMetaOf(OpMATCHB, "MATCHB", required("ImmMatcherIdx"), optional("ImmCount", 1), none),
    OpMetaOf(OpJMP, "JMP", required("ImmCodeOffset"), none, none),
    OpMetaOf(OpCALL, "CALL", required("ImmCodeOffset"), none, none),
    OpMetaOf(OpRET, "RET", none, none, none),
    OpMetaOf(OpTANYB, "TANYB", required("ImmCodeOffset"), optional("ImmCount", 1), none),
    OpMetaOf(OpTSAMEB, "TSAMEB", required("ImmCodeOffset"), required("ImmByte"),
             optional("ImmCount", 1)),
    OpMetaOf(OpTLITB, "TLITB", required("ImmCodeOffset"), required("ImmLiteralIdx"), none),
    OpMetaOf(OpTMATCHB, "TMATCHB", required("ImmCodeOffset"), required("ImmMatcherIdx"),
             optional("ImmCount", 1)),
    OpMetaOf(OpPCOMMIT, "PCOMMIT", required("ImmCodeOffset"), none, none),
    OpMetaOf(OpBCOMMIT, "BCOMMIT", required("ImmCodeOffset"), none, none),
    OpMetaOf(OpSPANB, "SPANB", required("ImmMatcherIdx"), none, none),
    OpMetaOf(OpFAIL2X, "FAIL2X", none, none, none),
    OpMetaOf(OpRWNDB, "RWNDB", required("ImmCount"), none, none),
    OpMetaOf(OpFCAP, "FCAP", required("ImmCaptureIdx"), required("ImmCount"), none),
    OpMetaOf(OpBCAP, "BCAP", required("ImmCaptureIdx"), none, none),
    OpMetaOf(OpECAP, "ECAP", required("ImmCaptureIdx"), none, none),
    OpMetaOf(OpGIVEUP, "GIVEUP", none, none, none),
    OpMetaOf(OpEND, "END", none, none, none) >>

LegalCodes == {opMeta[i].Code : i \in 1..Len(opMeta)}

\* OpCode.Meta: the table entry, or synthesized metadata for a reserved opcode
Meta(c) ==
    IF c \in LegalCodes
    THEN opMeta[CHOOSE i \in 1..Len(opMeta) : opMeta[i].Code = c]
    ELSE [Code |-> c, Illegal |-> TRUE,
          Imm0 |-> optional("ImmUint", 0), Imm1 |-> optional("ImmUint", 0),
          Imm2 |-> optional("ImmUint", 0), Name |-> "ILLEGAL"]

\* Default that forgets the sign extension
Default_ZeroExtended(m) == <<m.PackedDefault, 0, 0, 0, 0, 0, 0, 0>>

\* ImmMeta.Default: the packed default byte, sign-extended for signed slots
Default(m) ==
    LET b == m.PackedDefault
    IN  IF Signed(m.Type) /\ b >= 128
        THEN <<b, 255, 255, 255, 255, 255, 255, 255>>
        ELSE <<b, 0, 0, 0, 0, 0, 0, 0>>

\* ImmMeta.IsPresent
IsPresent(m, v) ==
    IF m.Type = "ImmNone" THEN FALSE
    ELSE IF m.Required THEN TRUE
    ELSE Default(m) # v

\* ImmLengthDecode that takes the width code for the width itself
ImmLengthDecode_Linear(b) ==
    IF b <= 4 THEN [length |-> b, valid |-> TRUE] ELSE [length |-> 0, valid |-> FALSE]

\* ImmLengthDecode that takes the width codes 5, 6 and 7 for no immediate
ImmLengthDecode_Lenient(b) ==
    CASE b = 0 -> [length |-> 0, valid |-> TRUE]
      [] b = 1 -> [length |-> 1, valid |-> TRUE]
      [] b = 2 -> [length |-> 2, valid |-> TRUE]
      [] b = 3 -> [length |-> 4, valid |-> TRUE]
      [] b = 4 -> [length |-> 8, valid |-> TRUE]
      [] OTHER -> [length |-> 0, valid |-> TRUE]

\* ImmLengthDecode: (length, valid) of a 3-bit width code
ImmLengthDecode(b) ==
    CASE b = 0 -> [length |-> 0, valid |-> TRUE]
      [] b = 1 -> [length |-> 1, valid |-> TRUE]
      [] b = 2 -> [length |-> 2, valid |-> TRUE]
      [] b = 3 -> [length |-> 4, valid |-> TRUE]
      [] b = 4 -> [length |-> 8, valid |-> TRUE]
      [] OTHER -> [length |-> 0, valid |-> FALSE]

\* ImmLengthEncode: the width code of a length in {0, 1, 2, 4, 8}
ImmLengthEncode(n) ==
    CASE n = 0 -> 0
      [] n = 1 -> 1
      [] n = 2 -> 2
      [] n = 4 -> 3
      [] n = 8 -> 4

----------------------------------------------------------------------------
(* ImmMeta.Decode and ImmMeta.Encode *)

\* ImmMeta.Decode that never misses a required immediate
ImmDecodeBytes_NoMissing(m, data) ==
    LET dflt == Default(m)
        n == Len(data)
        fill == Signed(m.Type) /\ data[n] >= 128
    IN  IF n = 0
        THEN [value |-> dflt, err |-> "nil"]
        ELSE IF m.Type = "ImmNone"
        THEN [value |-> dflt, err |-> "ErrUnexpectedImmediate"]
        ELSE [value |-> [i \in 1..8 |-> IF i <= n THEN ByteOr(dflt[i], data[i])
                                        ELSE IF fill THEN 255 ELSE dflt[i]],
              err |-> "nil"]

\* ImmMeta.Decode: value starts as the slot default; every data byte is OR-ed into
\* it at its position; a signed slot whose last data byte has its top bit set
\* gets 0xff OR-ed into every byte above the data.
ImmDecodeBytes(m, data) ==
    LET dflt == Default(m)
        n == Len(data)
        fill == Signed(m.Type) /\ data[n] >= 128
    IN  IF n = 0
        THEN [value |-> dflt,
              err |-> IF m.Type # "ImmNone" /\ m.Required THEN "ErrMissingImmediate" ELSE "nil"]
        ELSE IF m.Type = "ImmNone"
        THEN [value |-> dflt, err |-> "ErrUnexpectedImmediate"]
        ELSE [value |-> [i \in 1..8 |-> IF i <= n THEN ByteOr(dflt[i], data[i])
                                        ELSE IF fill THEN 255 ELSE dflt[i]],
              err |-> "nil"]

ImmDecode(m, data) ==
    CHOOSE r \in { ImmDecodeBytes(mm, d) : mm \in {m}, d \in {data} } : TRUE

\* Encode that picks the width of a signed value as if it were unsigned
ImmEncode_Unsigned(m, v) ==
    LET n == IF v[8] = 0 /\ v[7] = 0 /\ v[6] = 0 /\ v[5] = 0
             THEN IF v[4] = 0 /\ v[3] = 0
                  THEN IF v[2] = 0 THEN 1 ELSE 2
                  ELSE 4
             ELSE 8
    IN  IF ~IsPresent(m, v) THEN <<>> ELSE SubSeq(v, 1, n)

\* ImmMeta.Encode: nothing for a slot that is not present, else the shortest of
\* 1, 2, 4, 8 little-endian bytes that the nested tests of the code allow.
ImmEncode(meta, value) ==
    CHOOSE data \in
      { LET sgn == Signed(m.Type)
            negative == v[8] >= 128
            x == IF sgn /\ negative THEN 255 ELSE 0
            y == IF sgn /\ negative THEN 128 ELSE 0
            f(b) == IF sgn THEN (IF b >= 128 THEN 128 ELSE 0) = y ELSE TRUE
            n == IF v[8] = x /\ v[7] = x /\ v[6] = x /\ v[5] = x /\ f(v[4])
                 THEN IF v[4] = x /\ v[3] = x /\ f(v[2])
                      THEN IF v[2] = x /\ f(v[1]) THEN 1 ELSE 2
                      ELSE 4
                 ELSE 8
        IN  IF ~IsPresent(m, v) THEN <<>> ELSE SubSeq(v, 1, n) :
          m \in {meta}, v \in {value} } :
      TRUE

----------------------------------------------------------------------------
(* Op.Decode *)

NoOp(xp) ==
    [XP |-> xp, Imm0 |-> Zero64, Imm1 |-> Zero64, Imm2 |-> Zero64,
     Code |-> OpNOP, Len |-> 1, Err |-> "nil"]

\* Op.Decode(stream, xp): the Op as the code leaves it, and the error in Err
\* ("nil", "EOF" for io.EOF, or the kind a DisassembleError wraps, whose XP is xp).
OpDecode(stream, xp) ==
    IF ~LT64(xp, U64(Len(stream)))
    THEN [NoOp(xp) EXCEPT !.Err = "EOF"]
    ELSE
    LET p == ToNat(xp)
        byte0 == stream[p + 1]
        hasByte1 == p + 1 < Len(stream)
        byte1 == IF hasByte1 THEN stream[p + 2] ELSE 170
        long == byte0 >= 128
    IN  IF long /\ ~hasByte1
        THEN [NoOp(xp) EXCEPT !.Err = "ErrUnexpectedEOF"]
        ELSE
        LET hlen == IF long THEN 2 ELSE 1
            a == IF long THEN (byte0 % 128) \div 2 ELSE (byte0 \div 16) % 8
            b == IF long THEN (byte0 % 2) * 4 + (byte1 \div 64) ELSE (byte0 \div 4) % 4
            c == IF long THEN (byte1 \div 8) % 8 ELSE byte0 % 4
            d == IF long THEN byte1 % 8 ELSE 0
            l0 == ImmLengthDecode(b)
            l1 == ImmLengthDecode(c)
            l2 == ImmLengthDecode(d)
        IN  IF ~l0.valid \/ ~l1.valid \/ ~l2.valid
            THEN [NoOp(xp) EXCEPT !.Len = hlen, !.Err = "ErrBadImmediateLen"]
            ELSE
            LET i == p + hlen
                j == i + l0.length
                k == j + l1.length
                l == k + l2.length
                total == hlen + l0.length + l1.length + l2.length
            IN  IF l > Len(stream)
                THEN [NoOp(xp) EXCEPT !.Len = total, !.Err = "ErrUnexpectedEOF"]
                ELSE
                LET meta == Meta(a)
                    r0 == ImmDecode(meta.Imm0, SubSeq(stream, i + 1, j))
                    r1 == ImmDecode(meta.Imm1, SubSeq(stream, j + 1, k))
                    r2 == ImmDecode(meta.Imm2, SubSeq(stream, k + 1, l))
                IN  [XP |-> xp, Imm0 |-> r0.value, Imm1 |-> r1.value, Imm2 |-> r2.value,
                     Code |-> a, Len |-> total,
                     Err |-> IF meta.Illegal THEN "ErrUnknownOpcode"
                             ELSE IF r0.err # "nil" THEN r0.err
                             ELSE IF r1.err # "nil" THEN r1.err
                             ELSE r2.err]

----------------------------------------------------------------------------
(* OpMeta.Encode: the instruction encoder.  Its source is not among the      *)
(* files at hand (only its callers in assembler.go and the encodings the     *)
(* tests expect are); it is written from the format description: the one-byte *)
(* header [0aaa|bbcc] when the opcode is in 0..7, imm2 is not encoded and    *)
(* imm0 and imm1 take at most 4 bytes, else the two-byte header              *)
(* [1aaa|aaab][bbcc|cddd]; then the immediates as ImmMeta.Encode gives them. *)

OpMetaEncode(meta, imm0, imm1, imm2) ==
    CHOOSE raw \in
      { LET b == ImmLengthEncode(Len(e0))
            c == ImmLengthEncode(Len(e1))
            d == ImmLengthEncode(Len(e2))
            short == meta.Code <= 7 /\ Len(e2) = 0 /\ Len(e0) <= 4 /\ Len(e1) <= 4
            header == IF short
                      THEN <<meta.Code * 16 + b * 4 + c>>
                      ELSE <<128 + meta.Code * 2 + (b \div 4), (b % 4) * 64 + c * 8 + d>>
        IN  header \o e0 \o e1 \o e2 :
          e0 \in {ImmEncode(meta.Imm0, imm0)},
          e1 \in {ImmEncode(meta.Imm1, imm1)},
          e2 \in {ImmEncode(meta.Imm2, imm2)} } :
      TRUE

----------------------------------------------------------------------------
(* byteset: the Matchers, Match, ForEach and Optimize *)

Exactly(b) == [kind |-> "exact", Byte |-> b, Set |-> {}]
SparseSet(s) == [kind |-> "sparse", Byte |-> 0, Set |-> s]

None == [kind |-> "none"]
All == [kind |-> "all"]
Not(m) == [kind |-> "not", Inner |-> m]
And(ms) == [kind |-> "and", List |-> ms]
Or(ms) == [kind |-> "or", List |-> ms]

\* denseIM: the word of the bitmap and the bit within it
denseIM(b) == [index |-> b \div 32, bit |-> b % 32]

\* DenseSet: Set [8]uint32, each word held as the set of its set bits
DenseSet(given) ==
    [kind |-> "dense",
     Bits |-> [i \in 1..8 |-> {denseIM(b).bit : b \in {x \in given : denseIM(x).index = i - 1}}]]

RECURSIVE sortByLo(_)
\* sort.Sort(rangeSlice(b)) on a slice of fewer than 12 entries: insertion
\* sort, an entry moves left past entries whose Lo is greater
sortByLo(b) ==
    IF Len(b) < 2 THEN b
    ELSE LET s == sortByLo(SubSeq(b, 1, Len(b) - 1))
             r == b[Len(b)]
             k == Cardinality({i \in 1..Len(s) : ~(r.Lo < s[i].Lo)})
         IN  SubSeq(s, 1, k) \o <<r>> \o SubSeq(s, k + 1, Len(s))

RECURSIVE mergeRanges(_, _, _, _)
\* the second loop of coalesceRanges
mergeRanges(c, lastHi, have, b) ==
    IF b = <<>> THEN c
    ELSE LET r == Head(b)
         IN  IF have /\ lastHi >= r.Hi
             THEN mergeRanges(c, lastHi, have, Tail(b))
             ELSE IF have /\ lastHi >= r.Lo
             THEN mergeRanges([c EXCEPT ![Len(c)].Hi = r.Hi], r.Hi, have, Tail(b))
             ELSE mergeRanges(Append(c, r), r.Hi, TRUE, Tail(b))

coalesceRanges(a) ==
    LET b == sortByLo(SelectSeq(a, LAMBDA r : r.Hi >= r.Lo))
    IN  IF Len(b) < 2 THEN b ELSE mergeRanges(<<>>, 0, FALSE, b)

\* Ranges / makeRange
Ranges(rs) == [kind |-> "range", Ranges |-> coalesceRanges(rs)]

RECURSIVE search(_, _, _, _)
\* sort.Search over the predicate Ranges[i].Hi >= b: binary search in [i, j)
search(rs, b, i, j) ==
    IF i >= j THEN i
    ELSE LET h == (i + j) \div 2
         IN  IF ~(rs[h + 1].Hi >= b) THEN search(rs, b, h + 1, j) ELSE search(rs, b, i, h)

RECURSIVE Match(_, _)
\* Matcher.Match
Match(m, b) ==
    CASE m.kind = "none" -> FALSE
      [] m.kind = "all" -> TRUE
      [] m.kind = "exact" -> b = m.Byte
      [] m.kind = "sparse" -> b \in m.Set
      [] m.kind = "dense" -> denseIM(b).bit \in m.Bits[denseIM(b).index + 1]
      [] m.kind = "range" ->
            LET i == search(m.Ranges, b, 0, Len(m.Ranges))
            IN  IF i >= Len(m.Ranges) THEN FALSE
                ELSE m.Ranges[i + 1].Lo <= b /\ b <= m.Ranges[i + 1].Hi
      [] m.kind = "not" -> ~Match(m.Inner, b)
      [] m.kind = "and" -> \A i \in 1..Len(m.List) : Match(m.List[i], b)
      [] m.kind = "or" -> \E i \in 1..Len(m.List) : Match(m.List[i], b)

\* forEachByte: the bytes f is called with, in the order of the calls
forEachByte(lo, hi) == [i \in 1..(hi - lo + 1) |-> lo + i - 1]

RECURSIVE selectMatch(_, _, _, _)
\* the bytes among s[lo], ..., s[hi] that m matches, in the order of s
selectMatch(m, s, lo, hi) ==
    IF lo > hi THEN <<>>
    ELSE IF lo = hi THEN (IF Match(m, s[lo]) THEN <<s[lo]>> ELSE <<>>)
    ELSE selectMatch(m, s, lo, (lo + hi) \div 2)
            \o selectMatch(m, s, (lo + hi) \div 2 + 1, hi)

genericForEach(m) == selectMatch(m, forEachByte(0, 255), 1, 256)

RECURSIVE Ascending(_)
\* sort.Sort(byteSlice(sorted)) of distinct bytes
Ascending(s) ==
    IF s = {} THEN <<>>
    ELSE LET b == CHOOSE x \in s : \A y \in s : x <= y
         IN  <<b>> \o Ascending(s \ {b})

RECURSIVE Flatten(_)
Flatten(ss) == IF ss = <<>> THEN <<>> ELSE Head(ss) \o Flatten(Tail(ss))

\* receive that does not look at seen
receive_NoSeen(ch, seen) ==
    IF ch = <<>> THEN [ch |-> <<>>, got |-> <<>>]
    ELSE [ch |-> Tail(ch), got |-> <<Head(ch)>>]

RECURSIVE receive(_, _)
\* the inner loop of forEachUnion on one channel: it receives until a byte
\* not seen before (got) or until the channel is closed; ch is what the
\* goroutine has still to send
receive(ch, seen) ==
    IF ch = <<>> THEN [ch |-> <<>>, got |-> <<>>]
    ELSE IF Head(ch) \in seen THEN receive(Tail(ch), seen)
    ELSE [ch |-> Tail(ch), got |-> <<Head(ch)>>]

RECURSIVE unionRound(_, _, _, _)
\* for _, ch := range chans, from the channel of index i on
unionRound(chans, i, data, seen) ==
    IF i > Len(chans) THEN [chans |-> chans, data |-> data, seen |-> seen]
    ELSE LET r == receive(chans[i], seen)
         IN  unionRound([chans EXCEPT ![i] = r.ch], i + 1, data \o r.got,
                        seen \cup {r.got[k] : k \in 1..Len(r.got)})

RECURSIVE sortReverse(_, _)
\* sort.Sort(byteSliceReverse(data)): data in descending order.  Its first n
\* bytes are what the round before left, in descending order already; the
\* bytes received since follow them and are put in their places
sortReverse(data, n) ==
    IF n >= Len(data) THEN data
    ELSE LET x == data[n + 1]
             k == Cardinality({i \in 1..n : data[i] > x})
         IN  sortReverse(SubSeq(data, 1, k) \o <<x>> \o SubSeq(data, k + 1, n)
                            \o SubSeq(data, n + 2, Len(data)),
                         n + 1)

\* one round of the outer loop of forEachUnion; st.out is the bytes f was
\* called with; a round after the break changes nothing
unionStep(st) ==
    LET r == unionRound(st.chans, 1, st.data, st.seen)
        sorted == sortReverse(r.data, Len(st.data))
    IN  IF Len(r.data) = 0 THEN st
        ELSE [chans |-> r.chans,
              data |-> SubSeq(sorted, 1, Len(sorted) - 1),
              seen |-> r.seen,
              out |-> Append(st.out, sorted[Len(sorted)])]

RECURSIVE unionLoop(_, _)
\* n rounds of the outer loop: the first half of them, then the others
unionLoop(st, n) ==
    IF n = 1 THEN unionStep(st)
    ELSE CHOOSE r \in { unionLoop(half, n - n \div 2) :
                            half \in {unionLoop(st, n \div 2)} } : TRUE

\* forEachUnion: chans[i] holds what the goroutine of ms[i] sends, in order;
\* a receive blocks until that goroutine sends or closes, so the order in
\* which the goroutines run does not show.  Every round but the last calls
\* f with a byte not seen before: the loop breaks within 257 rounds
forEachUnion(chans) ==
    IF Len(chans) = 0 THEN <<>>
    ELSE unionLoop([chans |-> chans, data |-> <<>>, seen |-> {}, out |-> <<>>], 257).out

RECURSIVE ForEach(_)
RECURSIVE channels(_)
\* Matcher.ForEach: the bytes f is called with, in the order of the calls
ForEach(m) ==
    CASE m.kind = "none" -> <<>>
      [] m.kind = "all" -> genericForEach(m)
      [] m.kind = "exact" -> <<m.Byte>>
      [] m.kind = "sparse" -> Ascending(m.Set)
      [] m.kind = "dense" ->
            Flatten([i \in 1..8 |->
                SelectSeq([j \in 1..32 |-> (i - 1) * 32 + (j - 1)],
                          LAMBDA b : denseIM(b).bit \in m.Bits[i])])
      [] m.kind = "range" ->
            Flatten([i \in 1..Len(m.Ranges) |-> forEachByte(m.Ranges[i].Lo, m.Ranges[i].Hi)])
      [] m.kind = "not" -> genericForEach(m)
      [] m.kind = "and" ->
            IF Len(m.List) = 0 THEN forEachByte(0, 255)
            ELSE LET first == ForEach(m.List[1])
                 IN  selectMatch(And(Tail(m.List)), first, 1, Len(first))
      [] m.kind = "or" -> forEachUnion(channels(m.List))

\* the channels of forEachUnion: one goroutine for each of ms sends what
\* ForEach of its Matcher calls f with
channels(ms) ==
    IF ms = <<>> THEN <<>> ELSE <<ForEach(Head(ms))>> \o channels(Tail(ms))

\* asDense of a Matcher that is neither dense nor an asDenser
asDense(m) ==
    LET bytes == ForEach(m)
    IN  DenseSet({bytes[i] : i \in 1..Len(bytes)})

\* mDense.Optimize that takes the bit within the word for the byte
denseOptimize_BitOnly(m) ==
    LET n == Len(ForEach(m))
    IN  CASE n = 0 -> None
          [] n = 256 -> All
          [] n = 1 -> Exactly(denseIM(ForEach(m)[1]).bit)
          [] OTHER -> m

\* mDense.Optimize
denseOptimize(m) ==
    LET n == Len(ForEach(m))
    IN  CASE n = 0 -> None
          [] n = 256 -> All
          [] n = 1 -> Exactly(ForEach(m)[1])
          [] OTHER -> m

RECURSIVE Optimize(_)
\* Matcher.Optimize: ret is the Matcher returned, self the receiver after
\* the call (mNegation.Optimize assigns to its Inner)
Optimize(m) ==
    CASE m.kind = "none" -> [ret |-> None, self |-> m]
      [] m.kind = "all" -> [ret |-> All, self |-> m]
      [] m.kind = "exact" -> [ret |-> m, self |-> m]
      [] m.kind = "sparse" ->
            [ret |-> IF Cardinality(m.Set) = 0 THEN None
                     ELSE IF Cardinality(m.Set) = 1 THEN Exactly(CHOOSE b \in m.Set : TRUE)
                     ELSE m,
             self |-> m]
      [] m.kind = "dense" -> [ret |-> denseOptimize(m), self |-> m]
      [] m.kind = "range" -> [ret |-> IF Len(m.Ranges) = 0 THEN None ELSE m, self |-> m]
      [] m.kind = "not" ->
            LET sub == Optimize(m.Inner).ret
                self == Not(sub)
            IN  [ret |-> CASE sub.kind = "all" -> None
                           [] sub.kind = "none" -> All
                           [] sub.kind = "not" -> sub.Inner
                           [] sub.kind = "dense" ->
                                [kind |-> "dense",
                                 Bits |-> [i \in 1..8 |-> (0..31) \ sub.Bits[i]]]
                           [] OTHER -> self,
                 self |-> self]
      [] m.kind = "and" ->
            IF Len(m.List) = 0 THEN [ret |-> All, self |-> m]
            ELSE IF Len(m.List) = 1
            THEN [ret |-> Optimize(m.List[1]).ret, self |-> And(<<Optimize(m.List[1]).self>>)]
            ELSE [ret |-> denseOptimize(asDense(m)), self |-> m]
      [] m.kind = "or" ->
            IF Len(m.List) = 0 THEN [ret |-> None, self |-> m]
            ELSE IF Len(m.List) = 1
            THEN [ret |-> Optimize(m.List[1]).ret, self |-> Or(<<Optimize(m.List[1]).self>>)]
            ELSE [ret |-> denseOptimize(asDense(m)), self |-> m]

----------------------------------------------------------------------------
(* the execution engine: an Execution is [P, I, DP, XP, KS, CS, R] *)

Nil == [type |-> "nil", Err |-> "nil", XP |-> Zero64, DP |-> Zero64]
ErrExecutionHalted == [type |-> "halted", Err |-> "ErrExecutionHalted", XP |-> Zero64, DP |-> Zero64]
DisassembleError(err, xp) == [type |-> "disassemble", Err |-> err, XP |-> xp, DP |-> Zero64]
RuntimeError(err, xp, dp) == [type |-> "runtime", Err |-> err, XP |-> xp, DP |-> dp]
\* a Go panic unwinding out of Step: no value is returned
Panicked == [type |-> "panic", Err |-> "code offset out of range", XP |-> Zero64, DP |-> Zero64]

ChoiceFrame(dp, xp, ks) == [IsChoice |-> TRUE, DP |-> dp, XP |-> xp, KS |-> ks]
CallFrame(xp) == [IsChoice |-> FALSE, DP |-> Zero64, XP |-> xp, KS |-> <<>>]
Assignment(index, isEnd, dp) == [DP |-> dp, Index |-> index, IsEnd |-> isEnd]

\* what a case of Step hands back: the Execution and the returned error
Done(x) == [x |-> x, ret |-> Nil]

\* the rterr closure of Step
rterr(x, op, err) ==
    [x |-> [x EXCEPT !.R = "ErrorState", !.KS = <<>>],
     ret |-> RuntimeError(err, op.XP, x.DP)]

\* addOffset that returns an error-free, clamped address instead of panicking
addOffset_Clamp(xp, s) ==
    IF s.neg
    THEN [ok |-> TRUE, xp |-> IF LT64(xp, s.mag) THEN Zero64 ELSE Sub64(xp, s.mag)]
    ELSE [ok |-> TRUE, xp |-> IF LT64(Sub64(allbits, xp), s.mag) THEN allbits ELSE Add64(xp, s.mag)]

\* addOffset: xp + s with overflow checking; ok = FALSE is the panic
addOffset(xp, s) ==
    IF s.neg
    THEN IF LT64(xp, s.mag)
         THEN [ok |-> FALSE, xp |-> xp]
         ELSE [ok |-> TRUE, xp |-> Sub64(xp, s.mag)]
    ELSE IF LT64(Sub64(allbits, xp), s.mag)
         THEN [ok |-> FALSE, xp |-> xp]
         ELSE [ok |-> TRUE, xp |-> Add64(xp, s.mag)]

\* the panic of addOffset leaves the Execution as the case had changed it so far
Panic(x) == [x |-> x, ret |-> Panicked]

\* Execution.popCS
popCS(x) ==
    IF Len(x.CS) = 0
    THEN [fr |-> CallFrame(Zero64), ok |-> FALSE, x |-> x]
    ELSE [fr |-> x.CS[Len(x.CS)], ok |-> TRUE,
          x |-> [x EXCEPT !.CS = SubSeq(x.CS, 1, Len(x.CS) - 1)]]

\* Execution.availableBytes
availableBytes(x) == Sub64(U64(Len(x.I)), x.DP)

\* Execution.matchN
matchN(x, m, n) ==
    IF LT64(availableBytes(x), n)
    THEN FALSE
    ELSE \A i \in 0..(ToNat(n) - 1) : Match(m, x.I[ToNat(x.DP) + i + 1])

\* matchLit that compares the lengths only
matchLit_LengthOnly(x, l) ==
    IF LT64(availableBytes(x), U64(Len(l)))
    THEN [n |-> Zero64, good |-> FALSE]
    ELSE [n |-> U64(Len(l)), good |-> TRUE]

\* Execution.matchLit: (n, good)
matchLit(x, l) ==
    IF LT64(availableBytes(x), U64(Len(l)))
    THEN [n |-> Zero64, good |-> FALSE]
    ELSE IF \A i \in 0..(Len(l) - 1) : x.I[ToNat(x.DP) + i + 1] = l[i + 1]
         THEN [n |-> U64(Len(l)), good |-> TRUE]
         ELSE [n |-> Zero64, good |-> FALSE]

RECURSIVE failLoop(_)
failLoop(x) ==
    LET p == popCS(x)
    IN  IF ~p.ok THEN [x EXCEPT !.R = "FailureState", !.KS = <<>>]
        ELSE IF p.fr.IsChoice
        THEN [p.x EXCEPT !.DP = p.fr.DP, !.XP = p.fr.XP, !.KS = p.fr.KS]
        ELSE failLoop(p.x)

\* fail that forgets to restore KS from the frame
fail_KeepKS(x) == [failLoop(x) EXCEPT !.KS = x.KS]

\* Execution.fail
fail(x) == failLoop(x)

ExecCHOICE(x, op) ==
    LET t == addOffset(x.XP, u2s(op.Imm0))
    IN  IF ~t.ok THEN Panic(x)
        ELSE Done([x EXCEPT !.CS = Append(x.CS, ChoiceFrame(x.DP, t.xp, x.KS))])

ExecCOMMIT(x, op) ==
    LET p == popCS(x)
        t == addOffset(p.x.XP, u2s(op.Imm0))
    IN  IF ~p.ok THEN rterr(p.x, op, "ErrEmptyStack")
        ELSE IF ~p.fr.IsChoice THEN rterr(p.x, op, "ErrCallRetFrame")
        ELSE IF ~t.ok THEN Panic(p.x)
        ELSE Done([p.x EXCEPT !.XP = t.xp])

ExecFAIL(x, op) == Done(fail(x))

\* ANYB that advances without looking at the bytes left
ExecANYB_NoCheck(x, op) == Done([x EXCEPT !.DP = Add64(x.DP, op.Imm0)])

ExecANYB(x, op) ==
    IF ~LT64(availableBytes(x), op.Imm0)
    THEN Done([x EXCEPT !.DP = Add64(x.DP, op.Imm0)])
    ELSE Done(fail(x))

\* byte(v): the low byte of a uint64
LowByte(v) == v[1]

ExecSAMEB(x, op) ==
    IF matchN(x, Exactly(LowByte(op.Imm0)), op.Imm1)
    THEN Done([x EXCEPT !.DP = Add64(x.DP, op.Imm1)])
    ELSE Done(fail(x))

ExecLITB(x, op) ==
    IF ~LT64(op.Imm0, U64(Len(x.P.Literals)))
    THEN rterr(x, op, "ErrIndexRange")
    ELSE LET r == matchLit(x, x.P.Literals[ToNat(op.Imm0) + 1])
         IN  IF r.good THEN Done([x EXCEPT !.DP = Add64(x.DP, r.n)])
             ELSE Done(fail(x))

\* MATCHB that keeps the optimized form of the matcher in the Program
ExecMATCHB_Caching(x, op) ==
    IF ~LT64(op.Imm0, U64(Len(x.P.ByteSets)))
    THEN rterr(x, op, "ErrIndexRange")
    ELSE LET y == [x EXCEPT !.P.ByteSets[ToNat(op.Imm0) + 1] =
                                Optimize(x.P.ByteSets[ToNat(op.Imm0) + 1]).ret]
         IN  IF matchN(y, y.P.ByteSets[ToNat(op.Imm0) + 1], op.Imm1)
             THEN Done([y EXCEPT !.DP = Add64(y.DP, op.Imm1)])
             ELSE Done(fail(y))

ExecMATCHB(x, op) ==
    IF ~LT64(op.Imm0, U64(Len(x.P.ByteSets)))
    THEN rterr(x, op, "ErrIndexRange")
    ELSE IF matchN(x, x.P.ByteSets[ToNat(op.Imm0) + 1], op.Imm1)
         THEN Done([x EXCEPT !.DP = Add64(x.DP, op.Imm1)])
         ELSE Done(fail(x))

\* JMP that adds its offset to the address of the JMP itself
ExecJMP_FromStart(x, op) ==
    LET t == addOffset(op.XP, u2s(op.Imm0))
    IN  IF ~t.ok THEN Panic(x) ELSE Done([x EXCEPT !.XP = t.xp])

ExecJMP(x, op) ==
    LET t == addOffset(x.XP, u2s(op.Imm0))
    IN  IF ~t.ok THEN Panic(x) ELSE Done([x EXCEPT !.XP = t.xp])

ExecCALL(x, op) ==
    LET x1 == [x EXCEPT !.CS = Append(x.CS, CallFrame(x.XP))]
        t == addOffset(x.XP, u2s(op.Imm0))
    IN  IF ~t.ok THEN Panic(x1) ELSE Done([x1 EXCEPT !.XP = t.xp])

ExecRET(x, op) ==
    LET p == popCS(x)
    IN  IF ~p.ok THEN rterr(p.x, op, "ErrEmptyStack")
        ELSE IF ~p.fr.IsChoice THEN rterr(p.x, op, "ErrChoiceFailFrame")
        ELSE Done([p.x EXCEPT !.XP = p.fr.XP])

\* the else branch of the T* instructions: XP = addOffset(XP, imm0)
TestJump(x, op) ==
    LET t == addOffset(x.XP, u2s(op.Imm0))
    IN  IF ~t.ok THEN Panic(x) ELSE Done([x EXCEPT !.XP = t.xp])

ExecTANYB(x, op) ==
    IF ~LT64(availableBytes(x), op.Imm1)
    THEN Done([x EXCEPT !.DP = Add64(x.DP, op.Imm1)])
    ELSE TestJump(x, op)

ExecTSAMEB(x, op) ==
    IF matchN(x, Exactly(LowByte(op.Imm1)), op.Imm2)
    THEN Done([x EXCEPT !.DP = Add64(x.DP, op.Imm2)])
    ELSE TestJump(x, op)

ExecTLITB(x, op) ==
    IF ~LT64(op.Imm1, U64(Len(x.P.Literals)))
    THEN rterr(x, op, "ErrIndexRange")
    ELSE LET r == matchLit(x, x.P.Literals[ToNat(op.Imm1) + 1])
         IN  IF r.good THEN Done([x EXCEPT !.DP = Add64(x.DP, r.n)])
             ELSE TestJump(x, op)

ExecTMATCHB(x, op) ==
    IF ~LT64(op.Imm1, U64(Len(x.P.ByteSets)))
    THEN rterr(x, op, "ErrIndexRange")
    ELSE IF matchN(x, x.P.ByteSets[ToNat(op.Imm1) + 1], op.Imm2)
         THEN Done([x EXCEPT !.DP = Add64(x.DP, op.Imm2)])
         ELSE TestJump(x, op)

\* PCOMMIT that moves the frame's DP and KS and jumps, leaving the frame's XP
ExecPCOMMIT_Jumps(x, op) ==
    LET p == popCS(x)
        t == addOffset(p.x.XP, u2s(op.Imm0))
    IN  IF ~p.ok THEN rterr(p.x, op, "ErrEmptyStack")
        ELSE IF ~p.fr.IsChoice THEN rterr(p.x, op, "ErrCallRetFrame")
        ELSE IF ~t.ok THEN Panic(p.x)
        ELSE Done([p.x EXCEPT !.XP = t.xp,
                              !.CS = Append(p.x.CS,
                                        [p.fr EXCEPT !.DP = p.x.DP, !.KS = p.x.KS])])

ExecPCOMMIT(x, op) ==
    LET p == popCS(x)
        t == addOffset(p.x.XP, u2s(op.Imm0))
    IN  IF ~p.ok THEN rterr(p.x, op, "ErrEmptyStack")
        ELSE IF ~p.fr.IsChoice THEN rterr(p.x, op, "ErrCallRetFrame")
        ELSE IF ~t.ok THEN Panic(p.x)
        ELSE Done([p.x EXCEPT !.CS = Append(p.x.CS,
                        [p.fr EXCEPT !.DP = p.x.DP, !.XP = t.xp, !.KS = p.x.KS])])

\* BCOMMIT that goes on at the alternative the frame holds
ExecBCOMMIT_ToAlternative(x, op) ==
    LET p == popCS(x)
        x1 == [p.x EXCEPT !.DP = p.fr.DP, !.KS = p.fr.KS]
        t == addOffset(p.x.XP, u2s(op.Imm0))
    IN  IF ~p.ok THEN rterr(p.x, op, "ErrEmptyStack")
        ELSE IF ~p.fr.IsChoice THEN rterr(p.x, op, "ErrCallRetFrame")
        ELSE IF ~t.ok THEN Panic(x1)
        ELSE Done([x1 EXCEPT !.XP = p.fr.XP])

\* BCOMMIT that leaves KS as it is
ExecBCOMMIT_KeepKS(x, op) ==
    LET p == popCS(x)
        x1 == [p.x EXCEPT !.DP = p.fr.DP]
        t == addOffset(p.x.XP, u2s(op.Imm0))
    IN  IF ~p.ok THEN rterr(p.x, op, "ErrEmptyStack")
        ELSE IF ~p.fr.IsChoice THEN rterr(p.x, op, "ErrCallRetFrame")
        ELSE IF ~t.ok THEN Panic(x1)
        ELSE Done([x1 EXCEPT !.XP = t.xp])

ExecBCOMMIT(x, op) ==
    LET p == popCS(x)
        x1 == [p.x EXCEPT !.DP = p.fr.DP, !.KS = p.fr.KS]
        t == addOffset(p.x.XP, u2s(op.Imm0))
    IN  IF ~p.ok THEN rterr(p.x, op, "ErrEmptyStack")
        ELSE IF ~p.fr.IsChoice THEN rterr(p.x, op, "ErrCallRetFrame")
        ELSE IF ~t.ok THEN Panic(x1)
        ELSE Done([x1 EXCEPT !.XP = t.xp])

RECURSIVE spanLoop(_, _)
spanLoop(x, m) ==
    IF LT64(x.DP, U64(Len(x.I))) /\ Match(m, x.I[ToNat(x.DP) + 1])
    THEN spanLoop([x EXCEPT !.DP = Add64(x.DP, One64)], m)
    ELSE x

ExecSPANB(x, op) ==
    IF ~LT64(op.Imm0, U64(Len(x.P.ByteSets)))
    THEN rterr(x, op, "ErrIndexRange")
    ELSE Done(spanLoop(x, x.P.ByteSets[ToNat(op.Imm0) + 1]))

\* FAIL2X that fails once: the frame on top is restored like any other
ExecFAIL2X_Once(x, op) ==
    LET p == popCS(x)
    IN  IF ~p.ok THEN rterr(p.x, op, "ErrEmptyStack")
        ELSE IF ~p.fr.IsChoice THEN rterr(p.x, op, "ErrCallRetFrame")
        ELSE Done(fail(x))

\* FAIL2X that does not look at the kind of the frame it pops
ExecFAIL2X_AnyFrame(x, op) ==
    LET p == popCS(x)
    IN  IF ~p.ok THEN rterr(p.x, op, "ErrEmptyStack") ELSE Done(fail(p.x))

ExecFAIL2X(x, op) ==
    LET p == popCS(x)
    IN  IF ~p.ok THEN rterr(p.x, op, "ErrEmptyStack")
        ELSE IF ~p.fr.IsChoice THEN rterr(p.x, op, "ErrCallRetFrame")
        ELSE Done(fail(p.x))

\* RWNDB that treats a count above DP as a match failure
ExecRWNDB_Fails(x, op) ==
    IF LT64(x.DP, op.Imm0)
    THEN Done(fail(x))
    ELSE Done([x EXCEPT !.DP = Sub64(x.DP, op.Imm0)])

ExecRWNDB(x, op) ==
    IF LT64(x.DP, op.Imm0)
    THEN rterr(x, op, "ErrCountRange")
    ELSE Done([x EXCEPT !.DP = Sub64(x.DP, op.Imm0)])

\* FCAP that takes the current DP for the start of the capture too
ExecFCAP_StartAtDP(x, op) ==
    IF ~LT64(op.Imm0, U64(Len(x.P.Captures)))
    THEN rterr(x, op, "ErrIndexRange")
    ELSE IF LT64(x.DP, op.Imm1)
    THEN rterr(x, op, "ErrCountRange")
    ELSE Done([x EXCEPT !.KS = Append(Append(x.KS,
                    Assignment(op.Imm0, FALSE, x.DP)),
                    Assignment(op.Imm0, TRUE, x.DP))])

ExecFCAP(x, op) ==
    IF ~LT64(op.Imm0, U64(Len(x.P.Captures)))
    THEN rterr(x, op, "ErrIndexRange")
    ELSE IF LT64(x.DP, op.Imm1)
    THEN rterr(x, op, "ErrCountRange")
    ELSE Done([x EXCEPT !.KS = Append(Append(x.KS,
                    Assignment(op.Imm0, FALSE, Sub64(x.DP, op.Imm1))),
                    Assignment(op.Imm0, TRUE, x.DP))])

ExecBCAP(x, op) ==
    IF ~LT64(op.Imm0, U64(Len(x.P.Captures)))
    THEN rterr(x, op, "ErrIndexRange")
    ELSE Done([x EXCEPT !.KS = Append(x.KS, Assignment(op.Imm0, FALSE, x.DP))])

\* ECAP that does not look at its index
ExecECAP_NoCheck(x, op) ==
    Done([x EXCEPT !.KS = Append(x.KS, Assignment(op.Imm0, TRUE, x.DP))])

\* ECAP that writes over the last entry of KS
ExecECAP_Overwrite(x, op) ==
    IF ~LT64(op.Imm0, U64(Len(x.P.Captures)))
    THEN rterr(x, op, "ErrIndexRange")
    ELSE Done([x EXCEPT !.KS = IF Len(x.KS) = 0
                               THEN <<Assignment(op.Imm0, TRUE, x.DP)>>
                               ELSE [x.KS EXCEPT ![Len(x.KS)] =
                                        Assignment(op.Imm0, TRUE, x.DP)]])

ExecECAP(x, op) ==
    IF ~LT64(op.Imm0, U64(Len(x.P.Captures)))
    THEN rterr(x, op, "ErrIndexRange")
    ELSE Done([x EXCEPT !.KS = Append(x.KS, Assignment(op.Imm0, TRUE, x.DP))])

\* GIVEUP that leaves KS as it is
ExecGIVEUP_KeepKS(x, op) == Done([x EXCEPT !.R = "FailureState"])

ExecGIVEUP(x, op) == Done([x EXCEPT !.R = "FailureState", !.KS = <<>>])

ExecEND(x, op) == Done([x EXCEPT !.R = "SuccessState"])

\* the switch of Step, entered with XP already advanced past the instruction
Dispatch(x, op) ==
    CASE op.Code = OpNOP -> Done(x)
      [] op.Code = OpCHOICE -> ExecCHOICE(x, op)
      [] op.Code = OpCOMMIT -> ExecCOMMIT(x, op)
      [] op.Code = OpFAIL -> ExecFAIL(x, op)
      [] op.Code = OpANYB -> ExecANYB(x, op)
      [] op.Code = OpSAMEB -> ExecSAMEB(x, op)
      [] op.Code = OpLITB -> ExecLITB(x, op)
      [] op.Code = OpMATCHB -> ExecMATCHB(x, op)
      [] op.Code = OpJMP -> ExecJMP(x, op)
      [] op.Code = OpCALL -> ExecCALL(x, op)
      [] op.Code = OpRET -> ExecRET(x, op)
      [] op.Code = OpTANYB -> ExecTANYB(x, op)
      [] op.Code = OpTSAMEB -> ExecTSAMEB(x, op)
      [] op.Code = OpTLITB -> ExecTLITB(x, op)
      [] op.Code = OpTMATCHB -> ExecTMATCHB(x, op)
      [] op.Code = OpPCOMMIT -> ExecPCOMMIT(x, op)
      [] op.Code = OpBCOMMIT -> ExecBCOMMIT(x, op)
      [] op.Code = OpSPANB -> ExecSPANB(x, op)
      [] op.Code = OpFAIL2X -> ExecFAIL2X(x, op)
      [] op.Code = OpRWNDB -> ExecRWNDB(x, op)
      [] op.Code = OpFCAP -> ExecFCAP(x, op)
      [] op.Code = OpBCAP -> ExecBCAP(x, op)
      [] op.Code = OpECAP -> ExecECAP(x, op)
      [] op.Code = OpGIVEUP -> ExecGIVEUP(x, op)
      [] op.Code = OpEND -> ExecEND(x, op)

\* the decode-error branch without x.KS = nil
StepDecodeError_KeepKS(x, op) ==
    [x |-> [x EXCEPT !.R = "ErrorState"], ret |-> DisassembleError(op.Err, op.XP)]

\* the decode-error branch of Step
StepDecodeError(x, op) ==
    [x |-> [x EXCEPT !.R = "ErrorState", !.KS = <<>>],
     ret |-> DisassembleError(op.Err, op.XP)]

\* a halted Step that still moves XP
StepHalted_Moves(x) == [x |-> [x EXCEPT !.XP = Add64(x.XP, One64)], ret |-> ErrExecutionHalted]

\* the R != RunningState branch of Step
StepHalted(x) == [x |-> x, ret |-> ErrExecutionHalted]

\* Step once the instruction at XP has been through Op.Decode
StepOp(x, op) ==
    CHOOSE s \in
        { [x |-> r.x, ret |-> r.ret, op |-> op] :
            r \in { IF op.Err = "EOF" THEN Done([x EXCEPT !.R = "SuccessState"])
                    ELSE IF op.Err # "nil" THEN StepDecodeError(x, op)
                    ELSE CHOOSE d \in { Dispatch(y, op) :
                                y \in {[x EXCEPT !.XP = Add64(x.XP, U64(op.Len))]} } : TRUE } } :
        TRUE

\* Execution.Step: [x, ret, op]  (op is bound by a quantifier so that it is
\* decoded once)
Step(x) ==
    IF x.R # "RunningState"
    THEN [x |-> StepHalted(x).x, ret |-> StepHalted(x).ret, op |-> NoOp(x.XP)]
    ELSE CHOOSE s \in { StepOp(x, op) : op \in {OpDecode(x.P.Bytes, x.XP)} } : TRUE

RECURSIVE Run(_, _)
\* Execution.Run, for n rounds of its loop at most: the Execution it leaves
\* and what it returns (or that Step panicked)
Run(x, n) ==
    IF x.R # "RunningState" \/ n = 0 THEN [x |-> x, ret |-> Nil]
    ELSE CHOOSE r \in
            { IF s.ret.type = "nil" THEN Run(s.x, n - 1) ELSE [x |-> s.x, ret |-> s.ret] :
                s \in {Step(x)} } : TRUE

RECURSIVE harvest_KeepPending(_, _, _, _)
\* the loop of Match without pending[a.Index] = 0
harvest_KeepPending(ks, i, caps, pending) ==
    IF i > Len(ks) THEN [Captures |-> caps, panic |-> FALSE]
    ELSE LET a == ks[i] IN
         IF ~LT64(a.Index, U64(Len(caps)))
         THEN [Captures |-> caps, panic |-> TRUE]
         ELSE LET k == ToNat(a.Index) + 1 IN
              IF a.IsEnd
              THEN LET pair == [S |-> pending[k], E |-> a.DP]
                   IN  harvest_KeepPending(ks, i + 1,
                               [caps EXCEPT ![k] = [Exists |-> TRUE, Solo |-> pair,
                                                    Multi |-> Append(caps[k].Multi, pair)]],
                               pending)
              ELSE harvest_KeepPending(ks, i + 1, caps, [pending EXCEPT ![k] = a.DP])

\* the harvest loop of Program.Match over the final KS
RECURSIVE harvest(_, _, _, _)
harvest(ks, i, caps, pending) ==
    IF i > Len(ks) THEN [Captures |-> caps, panic |-> FALSE]
    ELSE LET a == ks[i] IN
         IF ~LT64(a.Index, U64(Len(caps)))
         THEN [Captures |-> caps, panic |-> TRUE]
         ELSE LET k == ToNat(a.Index) + 1 IN
              IF a.IsEnd
              THEN LET pair == [S |-> pending[k], E |-> a.DP]
                   IN  harvest(ks, i + 1,
                               [caps EXCEPT ![k] = [Exists |-> TRUE, Solo |-> pair,
                                                    Multi |-> Append(caps[k].Multi, pair)]],
                               [pending EXCEPT ![k] = Zero64])
              ELSE harvest(ks, i + 1, caps, [pending EXCEPT ![k] = a.DP])

NoCapture == [Exists |-> FALSE, Solo |-> [S |-> Zero64, E |-> Zero64], Multi |-> <<>>]

\* the Result of Program.Match, once Run has returned
MatchResult(x) ==
    LET h == harvest(x.KS, 1, [k \in 1..Len(x.P.Captures) |-> NoCapture],
                     [k \in 1..Len(x.P.Captures) |-> Zero64])
    IN  [done |-> TRUE, Success |-> x.R = "SuccessState", Captures |-> h.Captures,
         panic |-> h.panic]

NoResult == [done |-> FALSE, Success |-> FALSE, Captures |-> <<>>, panic |-> FALSE]

----------------------------------------------------------------------------
(* Programs and inputs the executions are started on *)

MaxInputLen == 2
MaxProgLen == 2
MaxKS == 8
MaxCS == 4
MaxS1InputLen == 5
MaxS2InputLen == 6

CaptureMeta(repeat) == [Name |-> "", Repeat |-> repeat]

\* sampleProgram1 of the tests: .*ana$
sampleProgram1 ==
    [Bytes |-> <<172, 64, 0,  20, 7,  100, 0,  20, 7,  64,  166, 0,
                 64,  144, 64, 243,  174, 64, 0,  254, 0>>,
     Literals |-> << <<97, 110, 97>> >>,
     ByteSets |-> <<>>,
     Captures |-> <<CaptureMeta(FALSE)>>]

\* sampleProgram2 of the tests: ^b(an)*a$
sampleProgram2 ==
    [Bytes |-> <<172, 64, 0,  84, 98,  20, 10,  84, 97,  84, 110,
                 170, 72, 1, 2,  36, 244,  84, 97,  20, 3,  64,
                 166, 0,  174, 64, 0,  254, 0>>,
     Literals |-> <<>>,
     ByteSets |-> <<>>,
     Captures |-> <<CaptureMeta(FALSE), CaptureMeta(TRUE)>>]

\* encoded instructions, and byte strings no instruction encodes to, that
\* the generated programs are concatenated from
Snippets ==
    { <<0>>,                                  \* NOP
      <<20, 0>>, <<20, 2>>, <<20, 254>>, <<20, 128>>,   \* CHOICE +0 +2 -2 -128
      <<36, 0>>, <<36, 128>>,                 \* COMMIT +0 -128
      <<48>>,                                 \* FAIL
      <<64>>, <<68, 2>>,                      \* ANYB, ANYB 2
      <<137, 0, 255, 255, 255, 255, 255, 255, 255, 255>>,  \* ANYB 2^64-1
      <<84, 97>>,                             \* SAMEB 'a'
      <<100, 0>>, <<100, 1>>,                 \* LITB 0, LITB 1
      <<116, 0>>,                             \* MATCHB 0
      <<144, 64, 0>>, <<144, 64, 253>>, <<144, 64, 250>>, <<144, 64, 128>>,  \* JMP +0 -3 -6 -128
      <<148, 64, 0>>, <<148, 64, 253>>, <<148, 64, 128>>,   \* CALL +0 -3 -128
      <<150, 0>>,                             \* RET
      <<152, 64, 0>>, <<152, 64, 128>>,       \* TANYB +0, TANYB -128
      <<154, 72, 128, 98>>,                   \* TSAMEB -128, 'b'
      <<156, 72, 128, 0>>,                    \* TLITB -128, 0
      <<158, 72, 128, 0>>,                    \* TMATCHB -128, 0
      <<160, 64, 0>>, <<160, 64, 128>>,       \* PCOMMIT +0 -128
      <<162, 64, 0>>, <<162, 64, 128>>,       \* BCOMMIT +0 -128
      <<164, 64, 0>>,                         \* SPANB 0
      <<166, 0>>,                             \* FAIL2X
      <<168, 64, 1>>,                         \* RWNDB 1
      <<169, 0, 255, 255, 255, 255, 255, 255, 255, 255>>,  \* RWNDB 2^64-1
      <<170, 72, 0, 1>>, <<170, 72, 1, 1>>,   \* FCAP 0, 1; FCAP 1, 1
      <<172, 64, 0>>, <<174, 64, 0>>,         \* BCAP 0, ECAP 0
      <<252, 0>>, <<254, 0>>,                 \* GIVEUP, END
      <<146, 0>>,                             \* reserved opcode 0x09
      <<128, 5>>,                             \* NOP with length code 5
      <<144>>, <<20>>,                        \* cut short
      <<4, 9>>,                               \* NOP with an immediate
      <<16>> }                                \* CHOICE without its offset

RECURSIVE Concat(_)
Concat(ss) == IF ss = <<>> THEN <<>> ELSE Head(ss) \o Concat(Tail(ss))

GenericProgram(bytes) ==
    [Bytes |-> bytes,
     Literals |-> << <<97, 110>> >>,
     ByteSets |-> <<SparseSet({97})>>,
     Captures |-> <<CaptureMeta(FALSE)>>]

PoolPrograms ==
    { GenericProgram(Concat(ss)) :
        ss \in UNION { [1..n -> Snippets] : n \in 1..MaxProgLen } }

\* longer programs, written out
HandPrograms ==
    { sampleProgram1, sampleProgram2,
      \* CHOICE .e; CHOICE .e; BCAP 0; CALL +0; FAIL; .e: END
      GenericProgram(<<20, 9,  20, 7,  172, 64, 0,  148, 64, 0,  48,  254, 0>>),
      \* CALL .f; END; .f: RET
      GenericProgram(<<148, 64, 2,  254, 0,  150, 0>>),
      \* ANYB; BCAP 0; CHOICE +1; ANYB; END
      GenericProgram(<<64,  172, 64, 0,  20, 1,  64,  254, 0>>),
      \* BCAP 0; CALL +0; FAIL2X
      GenericProgram(<<172, 64, 0,  148, 64, 0,  166, 0>>),
      \* BCAP 0; CHOICE .e; ANYB; BCAP 0; BCOMMIT +0; ECAP 0; .e: END
      GenericProgram(<<172, 64, 0,  20, 10,  64,  172, 64, 0,  162, 64, 0,
                       174, 64, 0,  254, 0>>),
      \* ANYB; BCAP 0; CHOICE .e; .l: ECAP 0; ANYB; PCOMMIT .l; .e: END
      GenericProgram(<<64,  172, 64, 0,  20, 7,  174, 64, 0,  64,  160, 64, 249,
                       254, 0>>),
      \* BCAP 0; CHOICE .e; ECAP 1; .e: END
      GenericProgram(<<172, 64, 0,  20, 3,  174, 64, 1,  254, 0>>),
      \* BCAP 0; CHOICE .e; ECAP 0; PCOMMIT .e; BCAP 0; FAIL; .e: END
      GenericProgram(<<172, 64, 0,  20, 10,  174, 64, 0,  160, 64, 4,
                       172, 64, 0,  48,  254, 0>>),
      \* CALL +0; CHOICE .e; ANYB; BCAP 0; .p: PCOMMIT .p; .e: END
      GenericProgram(<<148, 64, 0,  20, 7,  64,  172, 64, 0,  160, 64, 253,
                       254, 0>>),
      \* BCAP 0; CHOICE .e; ANYB; CHOICE +0; BCAP 0; FAIL2X; .e: END
      GenericProgram(<<172, 64, 0,  20, 8,  64,  20, 0,  172, 64, 0,  166, 0,
                       254, 0>>),
      \* CHOICE +0; ANYB; MATCHB 1
      GenericProgram(<<20, 0,  64,  116, 1>>),
      \* CHOICE +0; ANYB; SPANB 1
      GenericProgram(<<20, 0,  64,  164, 64, 1>>),
      \* CHOICE +0; ANYB; TLITB +0, 1
      GenericProgram(<<20, 0,  64,  156, 72, 0, 1>>),
      \* CHOICE +0; ANYB; TMATCHB +0, 1
      GenericProgram(<<20, 0,  64,  158, 72, 0, 1>>) }

Inputs == UNION { [1..n -> {97, 110}] : n \in 0..MaxInputLen }
S1Inputs == UNION { [1..n -> {97, 110, 120}] : n \in 0..MaxS1InputLen }
S2Inputs == UNION { [1..n -> {97, 98, 110}] : n \in 0..MaxS2InputLen }

\* Program.Exec
Exec(p, input) ==
    [P |-> p, I |-> input, DP |-> Zero64, XP |-> Zero64,
     KS |-> <<>>, CS |-> <<>>, R |-> "RunningState"]

----------------------------------------------------------------------------
(* The assembler.  An Assembler is [Items, List, LabelsByName, Queue, Panic]: *)
(* Items holds the AsmItems by identity (the pointers of the code are        *)
(* indexes into it, 0 for nil), List and Queue hold identities.  A run of    *)
(* Rep consecutive NOP instructions is kept as one item whose Bytes are      *)
(* repeated Rep times.                                                        *)

LabelNames == {"L0", "L1"}

\* every name a label is given here; one that starts with '.' is private
AllNames == LabelNames \cup {".L0", ".L1"}

\* the bytes of a name
NameBytes(name) ==
    CASE name = "L0" -> <<76, 48>>
      [] name = "L1" -> <<76, 49>>
      [] name = ".L0" -> <<46, 76, 48>>
      [] name = ".L1" -> <<46, 76, 49>>

\* the MaxLength of an AsmItem that EmitOp has just made
MaxInstructionLen == 26

NewAssembler ==
    [Items |-> <<>>, List |-> <<>>, LabelsByName |-> [n \in AllNames |-> 0],
     Queue |-> <<>>, Panic |-> "none"]

\* the zero AsmItem
NoItem ==
    [IsOp |-> FALSE, Index |-> -1, KnownXP |-> FALSE, XP |-> 0, Name |-> "",
     Public |-> FALSE, Seen |-> FALSE, Code |-> OpNOP, Imm0 |-> Zero64, Imm1 |-> Zero64, Imm2 |-> Zero64,
     Fixed |-> FALSE, Bytes |-> <<>>, Rep |-> 1, MaxLength |-> 0,
     Fixup |-> FALSE, Blocking |-> <<>>, FixBlockedBy |-> 0, Ref |-> ""]

\* len(item.Bytes)
BytesLen(item) == Len(item.Bytes) * item.Rep

\* Assembler.link
link(a, id) ==
    [a EXCEPT !.Items[id].Index = Len(a.List), !.List = Append(a.List, id)]

\* Assembler.GrabLabel: the Assembler and the identity of the label's item
GrabLabel(a, name) ==
    IF a.LabelsByName[name] # 0
    THEN [a |-> a, id |-> a.LabelsByName[name]]
    ELSE [a |-> [a EXCEPT !.Items = Append(a.Items,
                          [NoItem EXCEPT !.Name = name, !.Fixed = TRUE,
                                         !.Public = (NameBytes(name)[1] # 46)]),
                       !.LabelsByName[name] = Len(a.Items) + 1],
          id |-> Len(a.Items) + 1]

\* Assembler.EmitLabel
EmitLabel(a, name) ==
    LET g == GrabLabel(a, name)
    IN  link([g.a EXCEPT !.Items[g.id].Seen = TRUE], g.id)

\* AsmItem.generate
generate(item) ==
    CHOOSE done \in
      { CHOOSE gen \in
          { [it EXCEPT !.Bytes = raw, !.MaxLength = Len(raw) * it.Rep, !.Fixed = TRUE,
                       !.Fixup = FALSE, !.FixBlockedBy = 0] :
              raw \in {OpMetaEncode(Meta(it.Code), it.Imm0, it.Imm1, it.Imm2)} } : TRUE :
          it \in {item} } :
      TRUE

\* AsmItem.applyFixup
applyFixup(item, s) == [item EXCEPT !.Imm0 = s2u(s)]

\* EmitOp that sizes the instruction with the offset 0 in place of ^highbit
EmitOpLabel_ZeroPlaceholder(a, code, name) ==
    LET g == GrabLabel(a, name)
        id == Len(g.a.Items) + 1
        item == [NoItem EXCEPT !.IsOp = TRUE, !.Code = code, !.Name = Meta(code).Name,
                               !.MaxLength = MaxInstructionLen,
                               !.Imm1 = Default(Meta(code).Imm1),
                               !.Imm2 = Default(Meta(code).Imm2),
                               !.Fixup = TRUE, !.FixBlockedBy = g.id, !.Ref = name]
        a1 == link([g.a EXCEPT !.Items = Append(g.a.Items, item)], id)
        raw == OpMetaEncode(Meta(code), Zero64, item.Imm1, item.Imm2)
    IN  [a1 EXCEPT !.Items[g.id].Blocking = Append(a1.Items[g.id].Blocking, id),
                   !.Items[id].Imm0 = Zero64,
                   !.Items[id].MaxLength = Len(raw)]

\* Assembler.EmitOp(meta, label, nil, nil): an instruction whose imm0 is a label
EmitOpLabel(a, code, name) ==
    LET g == GrabLabel(a, name)
        id == Len(g.a.Items) + 1
        item == [NoItem EXCEPT !.IsOp = TRUE, !.Code = code, !.Name = Meta(code).Name,
                               !.MaxLength = MaxInstructionLen,
                               !.Imm1 = Default(Meta(code).Imm1),
                               !.Imm2 = Default(Meta(code).Imm2),
                               !.Fixup = TRUE, !.FixBlockedBy = g.id, !.Ref = name]
        a1 == link([g.a EXCEPT !.Items = Append(g.a.Items, item)], id)
        raw == OpMetaEncode(Meta(code), Not64(highbit), item.Imm1, item.Imm2)
    IN  [a1 EXCEPT !.Items[g.id].Blocking = Append(a1.Items[g.id].Blocking, id),
                   !.Items[id].Imm0 = Not64(highbit),
                   !.Items[id].MaxLength = Len(raw)]

\* rep times Assembler.EmitOp(NOP, nil, nil, nil)
EmitNops(a, rep) ==
    LET id == Len(a.Items) + 1
        item == [NoItem EXCEPT !.IsOp = TRUE, !.Code = OpNOP, !.Name = "NOP",
                               !.MaxLength = MaxInstructionLen, !.Rep = rep]
        a1 == link([a EXCEPT !.Items = Append(a.Items, item)], id)
    IN  [a1 EXCEPT !.Items[id] = generate(a1.Items[id])]

RECURSIVE SumSize(_, _, _)
\* the loop of distance over the List indexes lo..hi-1: f() on each
SumSize(a, lo, hi) ==
    IF lo >= hi THEN [total |-> 0, exact |-> TRUE]
    ELSE CHOOSE sum \in
            { IF item.Fixed
              THEN [total |-> BytesLen(item) + rest.total, exact |-> rest.exact]
              ELSE [total |-> item.MaxLength + rest.total, exact |-> FALSE] :
                item \in {a.Items[a.List[lo + 1]]}, rest \in {SumSize(a, lo + 1, hi)} } :
            TRUE

\* distance measured from the start of p
distance_FromStart(a, p, q) ==
    LET i == a.Items[p].Index
        j == a.Items[q].Index
    IN  IF i > j
        THEN [n |-> -SumSize(a, j, i).total, exact |-> SumSize(a, j, i).exact]
        ELSE [n |-> SumSize(a, i, j).total, exact |-> SumSize(a, i, j).exact]

\* Assembler.distance: (n, exact) from the end of p to the start of q
distance(a, p, q) ==
    LET i == a.Items[p].Index + 1
        j == a.Items[q].Index
    IN  IF i > j
        THEN CHOOSE d \in { [n |-> -sum.total, exact |-> sum.exact] :
                                sum \in {SumSize(a, j, i)} } : TRUE
        ELSE CHOOSE d \in { [n |-> sum.total, exact |-> sum.exact] :
                                sum \in {SumSize(a, i, j)} } : TRUE

\* trySetXP that lets a label take one byte of the program
trySetXP_LabelHasWidth(a, id) ==
    LET item == a.Items[id]
        prev == a.List[item.Index]
    IN  IF item.KnownXP THEN [a |-> a, progress |-> FALSE]
        ELSE IF item.Index = 0
        THEN [a |-> [a EXCEPT !.Items[id].XP = 0, !.Items[id].KnownXP = TRUE],
              progress |-> TRUE]
        ELSE IF a.Items[prev].KnownXP /\ a.Items[prev].Fixed
        THEN [a |-> [a EXCEPT !.Items[id].XP =
                                  a.Items[prev].XP +
                                  (IF a.Items[prev].IsOp THEN BytesLen(a.Items[prev]) ELSE 1),
                              !.Items[id].KnownXP = TRUE],
              progress |-> TRUE]
        ELSE [a |-> [a EXCEPT !.Items[prev].Blocking = Append(a.Items[prev].Blocking, id)],
              progress |-> FALSE]

\* Assembler.trySetXP: the Assembler and whether progress was made
trySetXP(a, id) ==
    LET item == a.Items[id]
        prev == a.List[item.Index]
    IN  IF item.KnownXP THEN [a |-> a, progress |-> FALSE]
        ELSE IF item.Index = 0
        THEN [a |-> [a EXCEPT !.Items[id].XP = 0, !.Items[id].KnownXP = TRUE],
              progress |-> TRUE]
        ELSE IF a.Items[prev].KnownXP /\ a.Items[prev].Fixed
        THEN [a |-> [a EXCEPT !.Items[id].XP = a.Items[prev].XP + BytesLen(a.Items[prev]),
                              !.Items[id].KnownXP = TRUE],
              progress |-> TRUE]
        ELSE [a |-> [a EXCEPT !.Items[prev].Blocking = Append(a.Items[prev].Blocking, id)],
              progress |-> FALSE]

\* Assembler.tryFix
tryFix(a, id) ==
    LET item == a.Items[id]
    IN  IF item.Fixed THEN [a |-> a, progress |-> FALSE]
        ELSE IF ~a.Items[item.FixBlockedBy].Seen THEN [a |-> a, progress |-> FALSE]
        ELSE CHOOSE r \in
          { IF d.exact
            THEN [a |-> [a EXCEPT !.Items[id] = generate(applyFixup(item, d.n))],
                  progress |-> TRUE]
            ELSE CHOOSE r1 \in
              { IF ml < item.MaxLength
                THEN [a |-> [a EXCEPT !.Items[id] = [fixed EXCEPT !.MaxLength = ml]],
                      progress |-> TRUE]
                ELSE IF ml = item.MaxLength
                THEN [a |-> [a EXCEPT !.Items[id] = fixed], progress |-> FALSE]
                ELSE [a |-> [a EXCEPT !.Items[id] = fixed, !.Panic = "max length grew"],
                      progress |-> FALSE] :
                  fixed \in {applyFixup(item, d.n)},
                  ml \in {Len(OpMetaEncode(Meta(item.Code), s2u(d.n), item.Imm1, item.Imm2))} } :
              TRUE :
              d \in {distance(a, id, item.FixBlockedBy)} } :
          TRUE

\* Assembler.processItem
processItem(a, id) ==
    LET todo == ~a.Items[id].KnownXP \/ ~a.Items[id].Fixed
    IN  CHOOSE r \in
          { CHOOSE r2 \in
              { [a |-> IF Len(r1.a.Items[id].Blocking) # 0
                       THEN [r1.a EXCEPT !.Items[id].Blocking = <<>>,
                                         !.Queue = r1.a.Queue \o r1.a.Items[id].Blocking]
                       ELSE r1.a,
                 progress |-> r0.progress \/ r1.progress] :
                  r1 \in {IF todo THEN tryFix(r0.a, id) ELSE r0} } : TRUE :
              r0 \in {IF todo THEN trySetXP(a, id) ELSE [a |-> a, progress |-> FALSE]} } :
          TRUE

RECURSIVE processLoop(_, _)
processLoop(a, progress) ==
    IF Len(a.Queue) = 0 \/ a.Panic # "none"
    THEN [a |-> a, progress |-> progress]
    ELSE CHOOSE r \in
            { processLoop(p.a, progress \/ p.progress) :
                p \in {processItem([a EXCEPT !.Queue = Tail(a.Queue)], Head(a.Queue))} } :
            TRUE

\* Assembler.process
process(a) == processLoop(a, FALSE)

\* one round of the loops of Fix: queue the whole List and process it
FixPass(a) == process([a EXCEPT !.Queue = a.Queue \o a.List])

\* the second loop of Fix without item.generate()
jiggle_NoGenerate(a, id) ==
    LET item == a.Items[id]
        n == distance(a, id, item.FixBlockedBy).n
    IN  [a EXCEPT !.Items[id] = applyFixup(item, n)]

\* the second loop of Fix without its special consideration
jiggle_NoAdjust(a, id) ==
    LET item == a.Items[id]
        n == distance(a, id, item.FixBlockedBy).n
    IN  [a EXCEPT !.Items[id] = generate(applyFixup(item, n))]

\* the body of the second loop of Fix, for an item that is not Fixed
jiggle(a, id) ==
    LET item == a.Items[id]
        enc(s) == OpMetaEncode(Meta(item.Code), s2u(s), item.Imm1, item.Imm2)
    IN  CHOOSE r \in
          { [a EXCEPT !.Items[id] =
                generate(applyFixup(item,
                    IF item.Index > a.Items[item.FixBlockedBy].Index
                    THEN IF Len(enc(n + 1)) = Len(enc(n)) THEN n ELSE n + 1
                    ELSE n))] :
              n \in {distance(a, id, item.FixBlockedBy).n} } :
          TRUE

\* Assembler.Finish after Fix: the instruction bytes in List order (a run of
\* NOPs as its bytes and its repetition count) and the labels with their XP
FinishProgram(a) ==
    LET items == [i \in 1..Len(a.List) |-> a.Items[a.List[i]]]
        ops == SelectSeq(items, LAMBDA it : it.IsOp)
        labels == SelectSeq(items, LAMBDA it : ~it.IsOp)
    IN  [Chunks |-> [i \in 1..Len(ops) |-> [Bytes |-> ops[i].Bytes, Rep |-> ops[i].Rep]],
         Labels |-> [i \in 1..Len(labels) |->
                        [Name |-> labels[i].Name, Public |-> labels[i].Public,
                         Offset |-> labels[i].XP]]]

NoProgramYet == [Chunks |-> <<>>, Labels |-> <<>>]

RECURSIVE StringLess(_, _)
\* s < t on strings: byte by byte, a proper prefix first
StringLess(s, t) ==
    IF t = <<>> THEN FALSE
    ELSE IF s = <<>> THEN TRUE
    ELSE IF s[1] # t[1] THEN s[1] < t[1]
    ELSE StringLess(Tail(s), Tail(t))

\* Labels.Less on two labels
Less(a, b) ==
    IF a.Offset # b.Offset THEN a.Offset < b.Offset
    ELSE IF a.Public # b.Public THEN a.Public
    ELSE StringLess(NameBytes(a.Name), NameBytes(b.Name))

RECURSIVE ChunksLen(_)
\* len(p.Bytes)
ChunksLen(chunks) ==
    IF chunks = <<>> THEN 0
    ELSE Len(chunks[1].Bytes) * chunks[1].Rep + ChunksLen(Tail(chunks))

RECURSIVE ByteAt(_, _)
\* p.Bytes[k], k counted from 0
ByteAt(chunks, k) ==
    LET n == Len(chunks[1].Bytes) * chunks[1].Rep
    IN  IF k < n THEN chunks[1].Bytes[(k % Len(chunks[1].Bytes)) + 1]
        ELSE ByteAt(Tail(chunks), k - n)

\* Op.Decode(p.Bytes, xp) on an assembled program: no instruction is longer
\* than MaxInstructionLen bytes, so the decoder sees at most that many
DecodeAt(prog, xp) ==
    LET avail == ChunksLen(prog.Chunks) - xp
        n == IF avail < MaxInstructionLen THEN avail ELSE MaxInstructionLen
    IN  CHOOSE d \in { OpDecode(w, Zero64) :
                        w \in {[i \in 1..n |-> ByteAt(prog.Chunks, xp + i - 1)]} } : TRUE

\* no Assembler is in use: the state of the other harnesses
AsmOff ==
    /\ asm = NewAssembler
    /\ apc = "off"
    /\ aJ = 0
    /\ aProg = NoProgramYet

\* no function is called on its own: the state of the other harnesses
FnOff ==
    /\ fn = "off"
    /\ arg = <<>>
    /\ res = <<>>

----------------------------------------------------------------------------
(* The Execution held in the variables *)

\* the Execution held in the variables
X == [P |-> P, I |-> I, DP |-> DP, XP |-> XP, KS |-> KS, CS |-> CS, R |-> R]

SetX(x) ==
    /\ P' = x.P
    /\ I' = x.I
    /\ DP' = x.DP
    /\ XP' = x.XP
    /\ KS' = x.KS
    /\ CS' = x.CS
    /\ R' = x.R

NoProgram == [Bytes |-> <<>>, Literals |-> <<>>, ByteSets |-> <<>>, Captures |-> <<>>]
NoCall == [kind |-> "none", op |-> NoOp(Zero64), pre |-> Exec(NoProgram, <<>>)]
NotReturned == [type |-> "none", Err |-> "nil", XP |-> Zero64, DP |-> Zero64]

\* no Execution is under way: the state of the other harnesses
XOff ==
    /\ P = NoProgram
    /\ I = <<>>
    /\ DP = Zero64
    /\ XP = Zero64
    /\ KS = <<>>
    /\ CS = <<>>
    /\ R = "RunningState"
    /\ mode = "off"
    /\ caller = "none"
    /\ ret = NotReturned
    /\ last = NoCall
    /\ runPre = Exec(NoProgram, <<>>)
    /\ result = NoResult

----------------------------------------------------------------------------
(* The codec harness: an instruction is chosen, encoded, and decoded again *)

ImmSamples ==
    { Zero64, One64, U64(2), U64(3), U64(127), U64(128), U64(255), U64(256),
      U64(32767), U64(32768), U64(65535), U64(65536),
      <<255, 255, 255, 127, 0, 0, 0, 0>>, <<0, 0, 0, 128, 0, 0, 0, 0>>,
      <<255, 255, 255, 255, 0, 0, 0, 0>>, <<0, 0, 0, 0, 1, 0, 0, 0>>,
      Not64(highbit), highbit, allbits, Not64(One64),
      s2u(-128), s2u(-129), s2u(-32768), s2u(-32769) }

\* the values a slot may hold when given to the encoder: an absent slot holds
\* its default (EmitOp stores Default() for nil), any other slot any value
SlotValues(m) == IF m.Type = "ImmNone" THEN {Default(m)} ELSE ImmSamples

\* the instructions of the opcodes in codes that the encoder may be given
CodecInputs(codes) ==
    UNION { { [Code |-> c, Imm0 |-> v0, Imm1 |-> v1, Imm2 |-> v2] :
                v0 \in SlotValues(Meta(c).Imm0),
                v1 \in SlotValues(Meta(c).Imm1),
                v2 \in SlotValues(Meta(c).Imm2) } : c \in codes }

NoBytes == <<>>
NotDecoded == NoOp(Zero64)

CodecInit ==
    /\ cpc = "input"
    /\ cOp \in CodecInputs(LegalCodes)
    /\ cBytes = NoBytes
    /\ cDec = NotDecoded
    /\ XOff
    /\ AsmOff
    /\ FnOff

\* the codec harness is not in use: the state of the other harnesses
CodecOff ==
    /\ cpc = "off"
    /\ cOp = [Code |-> OpNOP, Imm0 |-> Zero64, Imm1 |-> Zero64, Imm2 |-> Zero64]
    /\ cBytes = NoBytes
    /\ cDec = NotDecoded

CodecEncode ==
    /\ cpc = "input"
    /\ cBytes' = OpMetaEncode(Meta(cOp.Code), cOp.Imm0, cOp.Imm1, cOp.Imm2)
    /\ cpc' = "encoded"
    /\ UNCHANGED <<cOp, cDec>>
    /\ UNCHANGED <<xvars, avars, fvars>>

CodecDecode ==
    /\ cpc = "encoded"
    /\ cDec' = OpDecode(cBytes, Zero64)
    /\ cpc' = "decoded"
    /\ UNCHANGED <<cOp, cBytes>>
    /\ UNCHANGED <<xvars, avars, fvars>>

CodecNext == CodecEncode \/ CodecDecode

SpecCodec == CodecInit /\ [][CodecNext]_vars

----------------------------------------------------------------------------
(* One Execution, driven by Step and Run, or by Program.Match *)

\* the stacks stay within the model's bounds
WithinBounds == R = "RunningState" => Len(KS) + 2 <= MaxKS /\ Len(CS) + 1 <= MaxCS

ExecInit(programs, inputs, callers) ==
    /\ \E p \in programs, input \in inputs :
          /\ P = p
          /\ I = input
    /\ DP = Zero64
    /\ XP = Zero64
    /\ KS = <<>>
    /\ CS = <<>>
    /\ R = "RunningState"
    /\ mode = "idle"
    /\ caller \in callers
    /\ ret = NotReturned
    /\ last = NoCall
    /\ runPre = Exec(NoProgram, <<>>)
    /\ result = NoResult

\* one call of Execution.Step by the user of the Execution
StepCall ==
    /\ mode = "idle"
    /\ caller = "user"
    /\ WithinBounds
    /\ \E s \in {Step(X)} :
           /\ SetX(s.x)
           /\ ret' = s.ret
           /\ last' = [kind |-> "Step", op |-> s.op, pre |-> X]
           /\ mode' = IF s.ret.type = "panic" THEN "crashed" ELSE "idle"
    /\ UNCHANGED <<caller, runPre, result>>

\* Execution.Run is entered (by the user, or by Program.Match right after Exec)
RunCall ==
    /\ mode = "idle"
    /\ caller = "Match" => last.kind = "none"
    /\ mode' = "inRun"
    /\ runPre' = X
    /\ last' = [kind |-> "RunCall", op |-> NoOp(Zero64), pre |-> X]
    /\ UNCHANGED <<P, I, DP, XP, KS, CS, R, caller, ret, result>>

\* one iteration of the loop of Run; Match panics on the error Run returns
RunIter ==
    /\ mode = "inRun"
    /\ R = "RunningState"
    /\ WithinBounds
    /\ \E s \in {Step(X)} :
           /\ SetX(s.x)
           /\ ret' = IF s.ret.type = "nil" THEN ret ELSE s.ret
           /\ last' = [kind |-> "Step", op |-> s.op, pre |-> X]
           /\ mode' = IF s.ret.type = "nil" THEN "inRun"
                      ELSE IF s.ret.type = "panic" \/ caller = "Match" THEN "crashed"
                      ELSE "idle"
    /\ UNCHANGED <<caller, runPre, result>>

\* the loop condition of Run fails: return nil
RunReturn ==
    /\ mode = "inRun"
    /\ R # "RunningState"
    /\ ret' = Nil
    /\ last' = [kind |-> "Run", op |-> NoOp(Zero64), pre |-> runPre]
    /\ mode' = "idle"
    /\ UNCHANGED <<P, I, DP, XP, KS, CS, R, caller, runPre, result>>

\* Program.Match, after Run returned nil: fill in the Result
Harvest ==
    /\ mode = "idle"
    /\ caller = "Match"
    /\ last.kind = "Run"
    /\ result' = MatchResult(X)
    /\ mode' = IF MatchResult(X).panic THEN "crashed" ELSE "done"
    /\ UNCHANGED <<P, I, DP, XP, KS, CS, R, caller, ret, last, runPre>>

VMInit ==
    /\ \/ ExecInit(PoolPrograms, Inputs, {"user"})
       \/ ExecInit(HandPrograms, Inputs, {"user", "Match"})
    /\ CodecOff
    /\ AsmOff
    /\ FnOff

VMNext ==
    \/ (StepCall /\ UNCHANGED <<cvars, avars, fvars>>)
    \/ (RunCall /\ UNCHANGED <<cvars, avars, fvars>>)
    \/ (RunIter /\ UNCHANGED <<cvars, avars, fvars>>)
    \/ (RunReturn /\ UNCHANGED <<cvars, avars, fvars>>)
    \/ (Harvest /\ UNCHANGED <<cvars, avars, fvars>>)

SpecVM == VMInit /\ [][VMNext]_vars

\* Scenario 1: Program.Match of sampleProgram1 on every input
S1Init == ExecInit({sampleProgram1}, S1Inputs, {"Match"}) /\ CodecOff /\ AsmOff /\ FnOff

S1Next ==
    \/ (RunCall /\ UNCHANGED <<cvars, avars, fvars>>)
    \/ (RunIter /\ UNCHANGED <<cvars, avars, fvars>>)
    \/ (RunReturn /\ UNCHANGED <<cvars, avars, fvars>>)
    \/ (Harvest /\ UNCHANGED <<cvars, avars, fvars>>)

SpecS1 == S1Init /\ [][S1Next]_vars /\ WF_vars(S1Next)

\* Scenario 2: Program.Match of sampleProgram2 on every input
S2Init == ExecInit({sampleProgram2}, S2Inputs, {"Match"}) /\ CodecOff /\ AsmOff /\ FnOff

SpecS2 == S2Init /\ [][S1Next]_vars /\ WF_vars(S1Next)

----------------------------------------------------------------------------
(* The Assembler driven by its caller: labels, jumps to labels and runs of  *)
(* NOPs are emitted, then Finish runs Fix one loop round at a time.         *)

MaxItems == 5
MaxJumps == 2
MaxNopRuns == 1

\* the lengths of the runs of NOPs: they put a jump's offset below, at and
\* above the 8/16-bit and the 16/32-bit boundaries of the encoding
NopRuns == {1, 124, 125, 126, 32762, 32763, 32764}

JumpCodes == {OpJMP, OpCHOICE}

AsmInit ==
    /\ asm = NewAssembler
    /\ apc = "emit"
    /\ aJ = 0
    /\ aProg = NoProgramYet
    /\ CodecOff
    /\ XOff
    /\ FnOff

NumJumps == Cardinality({id \in 1..Len(asm.Items) : asm.Items[id].Ref # ""})
NumNopRuns == Cardinality({id \in 1..Len(asm.Items) :
                              asm.Items[id].IsOp /\ asm.Items[id].Ref = ""})

AsmEmitLabel ==
    /\ apc = "emit"
    /\ Len(asm.List) < MaxItems
    /\ \E name \in LabelNames :
        /\ ~(asm.LabelsByName[name] # 0 /\ asm.Items[asm.LabelsByName[name]].Seen)
        /\ asm' = EmitLabel(asm, name)
    /\ UNCHANGED <<apc, aJ, aProg>>

AsmEmitOp ==
    /\ apc = "emit"
    /\ Len(asm.List) < MaxItems
    /\ NumJumps < MaxJumps
    /\ \E code \in JumpCodes, name \in LabelNames : asm' = EmitOpLabel(asm, code, name)
    /\ UNCHANGED <<apc, aJ, aProg>>

AsmEmitNops ==
    /\ apc = "emit"
    /\ Len(asm.List) < MaxItems
    /\ NumNopRuns < MaxNopRuns
    /\ \E rep \in NopRuns : asm' = EmitNops(asm, rep)
    /\ UNCHANGED <<apc, aJ, aProg>>

\* every label that was grabbed has been emitted
AllLabelsSeen ==
    \A name \in AllNames :
        asm.LabelsByName[name] # 0 => asm.Items[asm.LabelsByName[name]].Seen

\* Finish calls Fix: the Queue is made
AsmFinish ==
    /\ apc = "emit"
    /\ AllLabelsSeen
    /\ asm' = [asm EXCEPT !.Queue = <<>>]
    /\ apc' = "reason"
    /\ UNCHANGED <<aJ, aProg>>

\* one round of the first loop of Fix
AsmReason ==
    /\ apc = "reason"
    /\ \E r \in {FixPass(asm)} :
        /\ asm' = r.a
        /\ apc' = IF r.a.Panic # "none" THEN "crashed"
                  ELSE IF r.progress THEN "reason" ELSE "jiggle"
    /\ aJ' = 0
    /\ UNCHANGED aProg

\* one round of the second loop of Fix, on the item at List index aJ
AsmJiggle ==
    /\ apc = "jiggle"
    /\ aJ < Len(asm.List)
    /\ asm' = IF asm.Items[asm.List[aJ + 1]].Fixed THEN asm
              ELSE jiggle(asm, asm.List[aJ + 1])
    /\ aJ' = aJ + 1
    /\ UNCHANGED <<apc, aProg>>

\* the second loop of Fix is over
AsmJiggled ==
    /\ apc = "jiggle"
    /\ aJ = Len(asm.List)
    /\ apc' = "place"
    /\ UNCHANGED <<asm, aJ, aProg>>

\* one round of the third loop of Fix
AsmPlace ==
    /\ apc = "place"
    /\ \E r \in {FixPass(asm)} :
        /\ asm' = r.a
        /\ apc' = IF r.a.Panic # "none" THEN "crashed"
                  ELSE IF r.progress THEN "place" ELSE "check"
    /\ UNCHANGED <<aJ, aProg>>

\* the assertions that end Fix, and the rest of Finish
AsmDone ==
    /\ apc = "check"
    /\ IF \A i \in 1..Len(asm.List) :
            asm.Items[asm.List[i]].KnownXP /\ asm.Items[asm.List[i]].Fixed
       THEN /\ aProg' = FinishProgram(asm)
            /\ apc' = "done"
            /\ asm' = asm
       ELSE /\ asm' = [asm EXCEPT !.Panic = "I done goofed"]
            /\ apc' = "crashed"
            /\ aProg' = aProg
    /\ UNCHANGED aJ

AsmNext ==
    \/ (AsmEmitLabel /\ UNCHANGED <<cvars, xvars, fvars>>)
    \/ (AsmEmitOp /\ UNCHANGED <<cvars, xvars, fvars>>)
    \/ (AsmEmitNops /\ UNCHANGED <<cvars, xvars, fvars>>)
    \/ (AsmFinish /\ UNCHANGED <<cvars, xvars, fvars>>)
    \/ (AsmReason /\ UNCHANGED <<cvars, xvars, fvars>>)
    \/ (AsmJiggle /\ UNCHANGED <<cvars, xvars, fvars>>)
    \/ (AsmJiggled /\ UNCHANGED <<cvars, xvars, fvars>>)
    \/ (AsmPlace /\ UNCHANGED <<cvars, xvars, fvars>>)
    \/ (AsmDone /\ UNCHANGED <<cvars, xvars, fvars>>)

SpecAsm == AsmInit /\ [][AsmNext]_vars

\* the steps of Finish: once called it runs on by itself, while the caller
\* may stop emitting at any time
FinishStep ==
    \/ (AsmFinish /\ UNCHANGED <<cvars, xvars, fvars>>)
    \/ (AsmReason /\ UNCHANGED <<cvars, xvars, fvars>>)
    \/ (AsmJiggle /\ UNCHANGED <<cvars, xvars, fvars>>)
    \/ (AsmJiggled /\ UNCHANGED <<cvars, xvars, fvars>>)
    \/ (AsmPlace /\ UNCHANGED <<cvars, xvars, fvars>>)
    \/ (AsmDone /\ UNCHANGED <<cvars, xvars, fvars>>)

FixStep == FinishStep /\ apc # "emit"

SpecAsmLive == AsmInit /\ [][AsmNext]_vars /\ WF_vars(FixStep)

----------------------------------------------------------------------------
(* One jump and its label with a run of NOPs between them: the jump first   *)
(* (forward) or the label first (backward), then Finish as above.           *)

MaxShortRun == 130

\* the lengths of the runs of NOPs: every length from 1 to past the 8/16-bit
\* boundary, and lengths in the 16-bit range up to its end
JmpRuns == 1..MaxShortRun \cup {255, 256, 32766, 32767}

\* the label has been emitted
JmpLabelSeen == asm.LabelsByName["L0"] # 0 /\ asm.Items[asm.LabelsByName["L0"]].Seen

\* EmitOp(OpJMP.Meta(), GrabLabel("L0"), nil, nil), first or after the label
JmpEmitOp ==
    /\ apc = "emit"
    /\ NumJumps = 0
    /\ Len(asm.List) = 0 \/ JmpLabelSeen
    /\ asm' = EmitOpLabel(asm, OpJMP, "L0")
    /\ UNCHANGED <<apc, aJ, aProg>>

\* rep times EmitOp(OpNOP.Meta(), nil, nil, nil), after the first item
JmpEmitNops ==
    /\ apc = "emit"
    /\ Len(asm.List) = 1
    /\ \E rep \in JmpRuns : asm' = EmitNops(asm, rep)
    /\ UNCHANGED <<apc, aJ, aProg>>

\* EmitLabel("L0"), first or after the jump
JmpEmitLabel ==
    /\ apc = "emit"
    /\ ~JmpLabelSeen
    /\ Len(asm.List) = 0 \/ NumJumps = 1
    /\ asm' = EmitLabel(asm, "L0")
    /\ UNCHANGED <<apc, aJ, aProg>>

JmpNext ==
    \/ (JmpEmitOp /\ UNCHANGED <<cvars, xvars, fvars>>)
    \/ (JmpEmitNops /\ UNCHANGED <<cvars, xvars, fvars>>)
    \/ (JmpEmitLabel /\ UNCHANGED <<cvars, xvars, fvars>>)
    \/ (AsmFinish /\ UNCHANGED <<cvars, xvars, fvars>>)
    \/ (AsmReason /\ UNCHANGED <<cvars, xvars, fvars>>)
    \/ (AsmJiggle /\ UNCHANGED <<cvars, xvars, fvars>>)
    \/ (AsmJiggled /\ UNCHANGED <<cvars, xvars, fvars>>)
    \/ (AsmPlace /\ UNCHANGED <<cvars, xvars, fvars>>)
    \/ (AsmDone /\ UNCHANGED <<cvars, xvars, fvars>>)

SpecJmp == AsmInit /\ [][JmpNext]_vars

----------------------------------------------------------------------------
(* Labels of both kinds and single NOPs emitted in any order, then Finish   *)
(* as above.                                                                *)

MaxLblItems == 4

\* EmitLabel(name) for a name not emitted before
LblEmitLabel ==
    /\ apc = "emit"
    /\ Len(asm.List) < MaxLblItems
    /\ \E name \in AllNames :
        /\ ~(asm.LabelsByName[name] # 0 /\ asm.Items[asm.LabelsByName[name]].Seen)
        /\ asm' = EmitLabel(asm, name)
    /\ UNCHANGED <<apc, aJ, aProg>>

\* EmitOp(OpNOP.Meta(), nil, nil, nil)
LblEmitNop ==
    /\ apc = "emit"
    /\ Len(asm.List) < MaxLblItems
    /\ asm' = EmitNops(asm, 1)
    /\ UNCHANGED <<apc, aJ, aProg>>

LblNext ==
    \/ (LblEmitLabel /\ UNCHANGED <<cvars, xvars, fvars>>)
    \/ (LblEmitNop /\ UNCHANGED <<cvars, xvars, fvars>>)
    \/ (AsmFinish /\ UNCHANGED <<cvars, xvars, fvars>>)
    \/ (AsmReason /\ UNCHANGED <<cvars, xvars, fvars>>)
    \/ (AsmJiggle /\ UNCHANGED <<cvars, xvars, fvars>>)
    \/ (AsmJiggled /\ UNCHANGED <<cvars, xvars, fvars>>)
    \/ (AsmPlace /\ UNCHANGED <<cvars, xvars, fvars>>)
    \/ (AsmDone /\ UNCHANGED <<cvars, xvars, fvars>>)

SpecLbl == AsmInit /\ [][LblNext]_vars

----------------------------------------------------------------------------
(* ImmMeta.Encode and ImmMeta.Decode called on their own, on any slot *)

ImmTypes == {"ImmUint", "ImmSint", "ImmByte", "ImmCount", "ImmCodeOffset"}
PackedDefaults == {0, 1, 127, 128, 255}

\* the slots none(), required(t) and optional(t, b) make
ImmMetas ==
    {none} \cup {required(t) : t \in ImmTypes}
           \cup {optional(t, b) : t \in ImmTypes, b \in PackedDefaults}

NoRes == [at |-> "none", bytes |-> <<>>, dec |-> [value |-> Zero64, err |-> "nil"]]

ImmInit ==
    /\ fn = "ImmMeta"
    /\ arg \in [m : ImmMetas, v : ImmSamples]
    /\ res = NoRes
    /\ CodecOff
    /\ XOff
    /\ AsmOff

\* m.Encode(v)
ImmEncodeCall ==
    /\ fn = "ImmMeta"
    /\ res.at = "none"
    /\ res' = [res EXCEPT !.at = "encoded", !.bytes = ImmEncode(arg.m, arg.v)]
    /\ UNCHANGED <<fn, arg>>

\* m.Decode of the bytes m.Encode gave
ImmDecodeCall ==
    /\ fn = "ImmMeta"
    /\ res.at = "encoded"
    /\ res' = [res EXCEPT !.at = "decoded", !.dec = ImmDecode(arg.m, res.bytes)]
    /\ UNCHANGED <<fn, arg>>

ImmNext ==
    \/ (ImmEncodeCall /\ UNCHANGED <<cvars, xvars, avars>>)
    \/ (ImmDecodeCall /\ UNCHANGED <<cvars, xvars, avars>>)

SpecImm == ImmInit /\ [][ImmNext]_vars

----------------------------------------------------------------------------
(* Op.Decode called on its own: any header after one NOP, as many bytes of  *)
(* immediates behind it as FillLens says                                    *)

FillLens == {0, 1, 3, 24}

\* the bytes 1, 2, ..., n
Filler(n) == [i \in 1..n |-> i]

DecStreams(fills) ==
    { <<0, b0>> \o Filler(n) : b0 \in 0..255, n \in fills }
        \cup { <<0, b0, b1>> \o Filler(n) : b0 \in 128..255, b1 \in 0..255, n \in fills }

\* the instruction after the NOP of every stream; the end of some streams and
\* addresses beyond it
DecInputs(fills) ==
    { [stream |-> s, xp |-> One64] : s \in DecStreams(fills) }
        \cup { [stream |-> s, xp |-> U64(Len(s) + k)] :
                  s \in {<<>>, <<0>>, <<0, 254, 0>>}, k \in 0..1 }

DecInit ==
    /\ fn = "Op.Decode"
    /\ arg \in DecInputs(FillLens)
    /\ res = [at |-> "none", bytes |-> <<>>, dec |-> NoOp(Zero64)]
    /\ CodecOff
    /\ XOff
    /\ AsmOff

\* op.Decode(stream, xp)
DecodeCall ==
    /\ fn = "Op.Decode"
    /\ res.at = "none"
    /\ res' = [res EXCEPT !.at = "decoded", !.dec = OpDecode(arg.stream, arg.xp)]
    /\ UNCHANGED <<fn, arg>>

DecNext == DecodeCall /\ UNCHANGED <<cvars, xvars, avars>>

SpecDec == DecInit /\ [][DecNext]_vars

\* the encoder and the decoder side by side: an instruction is encoded and
\* read back, or the decoder is given a header the encoder may never write
HdrInit == CodecInit \/ DecInit

HdrNext == CodecNext \/ DecNext

SpecHdr == HdrInit /\ [][HdrNext]_vars

----------------------------------------------------------------------------
(* byteset called on its own: a Matcher is built, then ForEach or Optimize  *)
(* is called on it; Ranges is called on a list of Range values              *)

MaxRanges == 3

\* the ends of the Range values: next to each other, one apart, and the
\* greatest byte
Ends == {0, 1, 2, 4, 255}

RangeLists(ends) ==
    UNION { [1..n -> [Lo : ends, Hi : ends]] : n \in 0..MaxRanges }

Leaves ==
    { None, All, Exactly(0), Exactly(255),
      SparseSet({}), SparseSet({97}), SparseSet({1, 32, 255}),
      DenseSet({}), DenseSet({31}), DenseSet({0, 31, 32, 255}), DenseSet(0..255),
      Ranges(<<>>),
      Ranges(<<[Lo |-> 0, Hi |-> 31], [Lo |-> 32, Hi |-> 40]>>),
      Ranges(<<[Lo |-> 250, Hi |-> 255], [Lo |-> 1, Hi |-> 2], [Lo |-> 9, Hi |-> 3]>>) }

\* the Leaves that the nested Matchers are made of
Twigs ==
    { Exactly(255), SparseSet({1, 32, 255}), DenseSet({0, 31, 32, 255}),
      Ranges(<<[Lo |-> 0, Hi |-> 31], [Lo |-> 32, Hi |-> 40]>>) }

\* Not, And and Or over ms, And and Or of up to two Matchers
Composites(ms) ==
    { Not(m) : m \in ms }
        \cup { And(l) : l \in {<<>>} \cup { <<a>> : a \in ms } \cup { <<a, b>> : a, b \in ms } }
        \cup { Or(l) : l \in {<<>>} \cup { <<a>> : a \in ms } \cup { <<a, b>> : a, b \in ms } }

Matchers(leaves, twigs) ==
    leaves
        \cup Composites(leaves)
        \cup Composites(twigs \cup Composites(twigs))
        \cup { Or(<<a, b, c>>) : a, b, c \in twigs }

NoCallYet == [at |-> "none", bytes |-> <<>>, ret |-> None, self |-> None]

BSInit ==
    /\ \/ fn = "Matcher" /\ arg \in Matchers(Leaves, Twigs)
       \/ fn = "Ranges" /\ arg \in RangeLists(Ends)
    /\ res = NoCallYet
    /\ CodecOff
    /\ XOff
    /\ AsmOff

ForEachCall ==
    /\ fn = "Matcher"
    /\ res.at = "none"
    /\ res' = [res EXCEPT !.at = "ForEach", !.bytes = ForEach(arg)]
    /\ UNCHANGED <<fn, arg>>

OptimizeCall ==
    /\ fn = "Matcher"
    /\ res.at = "none"
    /\ res' = [res EXCEPT !.at = "Optimize", !.ret = Optimize(arg).ret,
                          !.self = Optimize(arg).self]
    /\ UNCHANGED <<fn, arg>>

RangesCall ==
    /\ fn = "Ranges"
    /\ res.at = "none"
    /\ res' = [res EXCEPT !.at = "Ranges", !.ret = Ranges(arg)]
    /\ UNCHANGED <<fn, arg>>

BSNext ==
    \/ (ForEachCall /\ UNCHANGED <<cvars, xvars, avars>>)
    \/ (OptimizeCall /\ UNCHANGED <<cvars, xvars, avars>>)
    \/ (RangesCall /\ UNCHANGED <<cvars, xvars, avars>>)

SpecBS == BSInit /\ [][BSNext]_vars

----------------------------------------------------------------------------
(* forEachUnion with its goroutines: the caller starts one goroutine for    *)
(* each child; a goroutine sends the bytes of its child's ForEach on its    *)
(* own unbuffered channel, one send at a time, then closes the channel; the *)
(* caller receives from the channels in turn.  A send and its receive are   *)
(* one step; the goroutines and the caller run in any order                 *)

MaxChildren == 3

\* the children of the union: ForEach of each calls f a few times, with
\* bytes that other children send as well
UnionChildren ==
    { None, Exactly(2), SparseSet({1, 2}),
      Ranges(<<[Lo |-> 3, Hi |-> 4], [Lo |-> 0, Hi |-> 1]>>),
      Or(<<Exactly(4), Exactly(0)>>) }

\* the arguments of forEachUnion: ms, and by the side of each of ms what its
\* ForEach calls f with
UnionLists(children) ==
    { [ms |-> l, sends |-> channels(l)] :
        l \in UNION { [1..n -> children] : n \in 0..MaxChildren } }

\* a goroutine that was not started yet
NoGoroutine == [at |-> "none", todo |-> <<>>]

UnionInit ==
    /\ fn = "forEachUnion"
    /\ arg \in UnionLists(UnionChildren)
    /\ res = [pc |-> "entry", i |-> 0, g |-> [k \in 1..Len(arg.ms) |-> NoGoroutine],
              data |-> <<>>, seen |-> {}, out |-> <<>>]
    /\ CodecOff
    /\ XOff
    /\ AsmOff

\* if len(ms) == 0 { return }; chans := make(...)
UnionEnter ==
    /\ fn = "forEachUnion"
    /\ res.pc = "entry"
    /\ res' = IF Len(arg.ms) = 0 THEN [res EXCEPT !.pc = "done"]
              ELSE [res EXCEPT !.pc = "spawn", !.i = 1]
    /\ UNCHANGED <<fn, arg>>

\* one round of for i := range ms: the channel is made and the goroutine of
\* ms[i] is started; todo is what m.ForEach will call its f with
UnionGo ==
    /\ fn = "forEachUnion"
    /\ res.pc = "spawn"
    /\ res' = [res EXCEPT !.g[res.i] = [at |-> "run", todo |-> arg.sends[res.i]],
                          !.i = IF res.i = Len(arg.ms) THEN 1 ELSE res.i + 1,
                          !.pc = IF res.i = Len(arg.ms) THEN "recv" ELSE "spawn"]
    /\ UNCHANGED <<fn, arg>>

\* the goroutine of ms[k] runs a return of the goroutine without close(ch)
GoClose_NoClose(k) ==
    /\ fn = "forEachUnion"
    /\ k <= Len(arg.ms)
    /\ res.g[k].at = "run"
    /\ res.g[k].todo = <<>>
    /\ res' = [res EXCEPT !.g[k].at = "returned"]
    /\ UNCHANGED <<fn, arg>>

\* the goroutine of ms[k] comes to ch <- b and waits there for the receive
GoSend(k) ==
    /\ fn = "forEachUnion"
    /\ k <= Len(arg.ms)
    /\ res.g[k].at = "run"
    /\ res.g[k].todo # <<>>
    /\ res' = [res EXCEPT !.g[k].at = "send"]
    /\ UNCHANGED <<fn, arg>>

\* m.ForEach has returned in the goroutine of ms[k]: close(ch)
GoClose(k) ==
    /\ fn = "forEachUnion"
    /\ k <= Len(arg.ms)
    /\ res.g[k].at = "run"
    /\ res.g[k].todo = <<>>
    /\ res' = [res EXCEPT !.g[k].at = "closed"]
    /\ UNCHANGED <<fn, arg>>

\* the caller after its receive on chans[i] has ended the inner loop: the
\* next channel, or the end of for _, ch := range chans
nextChan(r, n) ==
    IF r.i = n THEN [r EXCEPT !.pc = "sort", !.i = 0] ELSE [r EXCEPT !.i = r.i + 1]

\* b, ok := <-ch with ok true: the send of the waiting goroutine and the
\* receive happen together; a byte seen before keeps the caller at the
\* same channel, a new one is appended to data
UnionRecv ==
    /\ fn = "forEachUnion"
    /\ res.pc = "recv"
    /\ res.g[res.i].at = "send"
    /\ \E b \in {Head(res.g[res.i].todo)} :
       \E r \in {[res EXCEPT !.g[res.i] = [at |-> "run", todo |-> Tail(res.g[res.i].todo)]]} :
          res' = IF b \in res.seen THEN r
                 ELSE nextChan([r EXCEPT !.data = Append(res.data, b),
                                         !.seen = res.seen \cup {b}], Len(arg.ms))
    /\ UNCHANGED <<fn, arg>>

\* b, ok := <-ch with ok false: the channel is closed
UnionRecvClosed ==
    /\ fn = "forEachUnion"
    /\ res.pc = "recv"
    /\ res.g[res.i].at = "closed"
    /\ res' = nextChan(res, Len(arg.ms))
    /\ UNCHANGED <<fn, arg>>

\* the end of a round of the outer loop: break on no data, else sort, call
\* f with the last byte of data and drop it
UnionRound ==
    /\ fn = "forEachUnion"
    /\ res.pc = "sort"
    /\ res' = IF Len(res.data) = 0 THEN [res EXCEPT !.pc = "done"]
              ELSE CHOOSE r \in
                { [res EXCEPT !.data = SubSeq(sorted, 1, Len(sorted) - 1),
                              !.out = Append(res.out, sorted[Len(sorted)]),
                              !.pc = "recv", !.i = 1] :
                    sorted \in {sortReverse(res.data, 0)} } : TRUE
    /\ UNCHANGED <<fn, arg>>

\* the steps of the caller
UnionMain ==
    \/ (UnionEnter /\ UNCHANGED <<cvars, xvars, avars>>)
    \/ (UnionGo /\ UNCHANGED <<cvars, xvars, avars>>)
    \/ (UnionRecv /\ UNCHANGED <<cvars, xvars, avars>>)
    \/ (UnionRecvClosed /\ UNCHANGED <<cvars, xvars, avars>>)
    \/ (UnionRound /\ UNCHANGED <<cvars, xvars, avars>>)

\* the steps of the goroutine of ms[k]
Goroutine(k) ==
    \/ (GoSend(k) /\ UNCHANGED <<cvars, xvars, avars>>)
    \/ (GoClose(k) /\ UNCHANGED <<cvars, xvars, avars>>)

UnionNext == UnionMain \/ \E k \in 1..MaxChildren : Goroutine(k)

\* the Go scheduler runs every goroutine that can run
SpecUnion ==
    /\ UnionInit
    /\ [][UnionNext]_vars
    /\ WF_vars(UnionMain)
    /\ \A k \in 1..MaxChildren : WF_vars(Goroutine(k))

----------------------------------------------------------------------------
(* The loop of Program.Match over the KS that Run has left: a program of    *)
(* ANYB, RWNDB, BCAP and ECAP instructions leaves any sequence of start and *)
(* end entries whose Index is one of its captures                           *)

MaxFinalKS == 4
MaxFinalDP == 2

TwoCaptures == GenericProgram(<<254, 0>>).Captures \o GenericProgram(<<254, 0>>).Captures

FinalKS(n) ==
    UNION { [1..k -> { Assignment(i, e, U64(dp)) :
                          i \in {Zero64, One64}, e \in BOOLEAN, dp \in 0..MaxFinalDP }] :
                k \in 0..n }

\* the Execution when Run has returned with R = SuccessState
Succeeded(ks) ==
    [Exec([GenericProgram(<<254, 0>>) EXCEPT !.Captures = TwoCaptures], <<97, 110>>)
        EXCEPT !.KS = ks, !.R = "SuccessState"]

KSInit ==
    /\ fn = "Match"
    /\ arg \in { Succeeded(ks) : ks \in FinalKS(MaxFinalKS) }
    /\ res = NoResult
    /\ CodecOff
    /\ XOff
    /\ AsmOff

MatchCall ==
    /\ fn = "Match"
    /\ ~res.done
    /\ res' = MatchResult(arg)
    /\ UNCHANGED <<fn, arg>>

KSNext == MatchCall /\ UNCHANGED <<cvars, xvars, avars>>

SpecKS == KSInit /\ [][KSNext]_vars

----------------------------------------------------------------------------
(* Two Executions that Exec made on one Program, stepped in any order.  The *)
(* Program and the two inputs are held once, as the objects the Executions  *)
(* point to; each Step is given them and leaves them as it leaves them.     *)

MaxAloneSteps == 64

SharePrograms ==
    HandPrograms \cup
    { \* CHOICE +2; MATCHB 0; BCAP 0; SPANB 0; ECAP 0; LITB 0; END
      GenericProgram(<<20, 2,  116, 0,  172, 64, 0,  164, 64, 0,  174, 64, 0,
                       100, 0,  254, 0>>) }

\* the fields of an Execution that are its own
Own(x) == [DP |-> x.DP, XP |-> x.XP, KS |-> x.KS, CS |-> x.CS, R |-> x.R]

\* the k-th Execution, with the Program and the input it points to
Pointed(k) ==
    [P |-> res.P, I |-> res.I[k], DP |-> res.xs[k].DP, XP |-> res.xs[k].XP,
     KS |-> res.xs[k].KS, CS |-> res.xs[k].CS, R |-> res.xs[k].R]

ShareInit ==
    /\ fn = "Exec"
    /\ \E p \in SharePrograms, i1, i2 \in Inputs :
        /\ arg = [P |-> p, I |-> <<i1, i2>>]
        /\ res = [P |-> p, I |-> <<i1, i2>>,
                  xs |-> <<Own(Exec(p, i1)), Own(Exec(p, i2))>>,
                  ret |-> <<NotReturned, NotReturned>>]
    /\ CodecOff
    /\ XOff
    /\ AsmOff

\* the k-th Execution is still to be stepped by the loop of Run
Stepping(k) ==
    /\ res.xs[k].R = "RunningState"
    /\ res.ret[k].type \in {"none", "nil"}
    /\ Len(res.xs[k].KS) + 2 <= MaxKS
    /\ Len(res.xs[k].CS) + 1 <= MaxCS

\* one Step of the k-th Execution
StepOf(k) ==
    /\ fn = "Exec"
    /\ Stepping(k)
    /\ \E s \in {Step(Pointed(k))} :
        res' = [res EXCEPT !.P = s.x.P, !.I[k] = s.x.I,
                           !.xs[k] = Own(s.x), !.ret[k] = s.ret]
    /\ UNCHANGED <<fn, arg>>

StepFirst == StepOf(1)
StepSecond == StepOf(2)

ShareNext ==
    \/ (StepFirst /\ UNCHANGED <<cvars, xvars, avars>>)
    \/ (StepSecond /\ UNCHANGED <<cvars, xvars, avars>>)

SpecShare == ShareInit /\ [][ShareNext]_vars

----------------------------------------------------------------------------
(* C1: codec round trip.  Decoding the bytes the encoder produced for a     *)
(* legal opcode and an accepted immediate tuple gives back the opcode and   *)
(* the three immediates, without error, and Len is the number of bytes.     *)
C1_RoundTrip ==
    cpc = "decoded" =>
        /\ cDec.Err = "nil"
        /\ cDec.Code = cOp.Code
        /\ cDec.Imm0 = cOp.Imm0
        /\ cDec.Imm1 = cOp.Imm1
        /\ cDec.Imm2 = cOp.Imm2
        /\ cDec.Len = Len(cBytes)

----------------------------------------------------------------------------
(* What the claims about Step speak of *)

\* the last call was a Step that decoded and ran an instruction of these opcodes
Ran(codes) ==
    /\ last.kind = "Step"
    /\ last.pre.R = "RunningState"
    /\ last.op.Err = "nil"
    /\ last.op.Code \in codes

\* index in cs of the topmost choice frame, 0 if there is none
TopChoice(cs) ==
    IF \E j \in 1..Len(cs) : cs[j].IsChoice
    THEN CHOOSE j \in 1..Len(cs) :
            cs[j].IsChoice /\ \A k \in (j + 1)..Len(cs) : ~cs[k].IsChoice
    ELSE 0

\* the last Step ran FAIL, or a match instruction that did not match
FailCase ==
    \/ Ran({OpFAIL})
    \/ Ran({OpANYB}) /\ LT64(availableBytes(last.pre), last.op.Imm0)
    \/ Ran({OpSAMEB}) /\ ~matchN(last.pre, Exactly(LowByte(last.op.Imm0)), last.op.Imm1)
    \/ /\ Ran({OpLITB})
       /\ LT64(last.op.Imm0, U64(Len(P.Literals)))
       /\ ~matchLit(last.pre, P.Literals[ToNat(last.op.Imm0) + 1]).good
    \/ /\ Ran({OpMATCHB})
       /\ LT64(last.op.Imm0, U64(Len(P.ByteSets)))
       /\ ~matchN(last.pre, P.ByteSets[ToNat(last.op.Imm0) + 1], last.op.Imm1)

(* C3: fail() backtracking.  When FAIL runs or a match instruction does not *)
(* match while a choice frame is on CS, the call frames above the topmost   *)
(* choice frame are dropped, DP and XP become that frame's, KS is cut back  *)
(* to the depth the frame saved, the frame itself is removed and the frames *)
(* below it stay as they were.                                              *)
C3_FailBacktracks ==
    (FailCase /\ TopChoice(last.pre.CS) > 0) =>
        LET j == TopChoice(last.pre.CS)
            fr == last.pre.CS[j]
        IN  /\ DP = fr.DP
            /\ XP = fr.XP
            /\ KS = SubSeq(last.pre.KS, 1, Len(fr.KS))
            /\ CS = SubSeq(last.pre.CS, 1, j - 1)
            /\ R = "RunningState"

\* a call frame was dropped, a frame stayed below, and KS became shorter
C3_Witness ==
    /\ FailCase
    /\ LET j == TopChoice(last.pre.CS)
       IN  /\ j > 1
           /\ j < Len(last.pre.CS)
           /\ Len(KS) < Len(last.pre.KS)
           /\ CS = SubSeq(last.pre.CS, 1, j - 1)

(* C4: RET.  With a call frame on top of CS, RET pops it, sets XP to the    *)
(* frame's return address and leaves R Running; with a choice frame on top  *)
(* RET is the ChoiceFailFrame runtime error.                                *)
C4_RET ==
    (Ran({OpRET}) /\ Len(last.pre.CS) > 0) =>
        LET fr == last.pre.CS[Len(last.pre.CS)]
        IN  IF ~fr.IsChoice
            THEN /\ R = "RunningState"
                 /\ XP = fr.XP
                 /\ CS = SubSeq(last.pre.CS, 1, Len(last.pre.CS) - 1)
            ELSE /\ R = "ErrorState"
                 /\ ret = RuntimeError("ErrChoiceFailFrame", last.pre.XP, last.pre.DP)

(* C5: data-pointer invariant.  In every state reached by Step calls from   *)
(* Exec, DP is at most the input length, and so is the DP saved in every    *)
(* choice frame on CS and the DP of every KS entry, of the Execution and of *)
(* the frames.                                                              *)
C5_DPInRange ==
    mode # "off" =>
        /\ LE64(DP, U64(Len(I)))
        /\ \A i \in 1..Len(KS) : LE64(KS[i].DP, U64(Len(I)))
        /\ \A j \in 1..Len(CS) :
              CS[j].IsChoice =>
                 /\ LE64(CS[j].DP, U64(Len(I)))
                 /\ \A i \in 1..Len(CS[j].KS) : LE64(CS[j].KS[i].DP, U64(Len(I)))

\* DP at the end of a non-empty input, a frame and a KS entry with DP > 0
C5_Witness ==
    /\ last.kind = "Step"
    /\ Len(I) > 0
    /\ DP = U64(Len(I))
    /\ \E j \in 1..Len(CS) : CS[j].IsChoice /\ CS[j].DP # Zero64
    /\ \E i \in 1..Len(KS) : KS[i].DP # Zero64

(* C6: terminal states are absorbing.  Step called with R not Running       *)
(* returns ErrExecutionHalted and leaves the Execution as it was; Run       *)
(* called with R not Running returns nil and leaves the Execution as it was *)
C6_TerminalAbsorbing ==
    /\ (last.kind = "Step" /\ last.pre.R # "RunningState") =>
           (ret = ErrExecutionHalted /\ X = last.pre)
    /\ (last.kind = "Run" /\ last.pre.R # "RunningState") =>
           (ret = Nil /\ X = last.pre)

\* Step was called on an Execution that had ended in error, with frames left
C6_Witness ==
    /\ last.kind = "Step"
    /\ last.pre.R = "ErrorState"
    /\ Len(last.pre.CS) > 0
    /\ ret = ErrExecutionHalted

DecodeErrors ==
    {"ErrUnknownOpcode", "ErrBadImmediateLen", "ErrMissingImmediate",
     "ErrUnexpectedImmediate", "ErrUnexpectedEOF"}

(* C7: decode error during Step.  When the instruction at XP does not       *)
(* decode, Step sets R to Error, empties KS and returns a DisassembleError  *)
(* with the decoder's error and the XP at which decoding was attempted.     *)
C7_DecodeError ==
    (/\ last.kind = "Step"
     /\ last.pre.R = "RunningState"
     /\ last.op.Err \in DecodeErrors) =>
        /\ R = "ErrorState"
        /\ KS = <<>>
        /\ ret = DisassembleError(last.op.Err, last.pre.XP)

\* a reserved opcode met after the first instruction, with KS not empty
C7_Witness ==
    /\ last.kind = "Step"
    /\ last.pre.R = "RunningState"
    /\ last.op.Err = "ErrUnknownOpcode"
    /\ last.pre.XP # Zero64
    /\ last.pre.KS # <<>>
    /\ R = "ErrorState"

(* C8: frame-type errors.  COMMIT, PCOMMIT, BCOMMIT and FAIL2X run with an  *)
(* empty CS return the ErrEmptyStack runtime error, and run with a call     *)
(* frame on top return ErrCallRetFrame; R becomes Error and KS is emptied.  *)
C8_FrameTypeErrors ==
    Ran({OpCOMMIT, OpPCOMMIT, OpBCOMMIT, OpFAIL2X}) =>
        /\ Len(last.pre.CS) = 0 =>
              /\ ret = RuntimeError("ErrEmptyStack", last.pre.XP, last.pre.DP)
              /\ R = "ErrorState"
              /\ KS = <<>>
        /\ (Len(last.pre.CS) > 0 /\ ~last.pre.CS[Len(last.pre.CS)].IsChoice) =>
              /\ ret = RuntimeError("ErrCallRetFrame", last.pre.XP, last.pre.DP)
              /\ R = "ErrorState"
              /\ KS = <<>>

\* FAIL2X met a call frame while KS held an entry
C8_Witness ==
    /\ Ran({OpFAIL2X})
    /\ Len(last.pre.CS) > 0
    /\ ~last.pre.CS[Len(last.pre.CS)].IsChoice
    /\ last.pre.KS # <<>>
    /\ ret.Err = "ErrCallRetFrame"

\* off negative and |off| > xp, or off >= 0 and off > 2^64-1-xp
Overflows(xp, s) ==
    IF s.neg THEN LT64(xp, s.mag) ELSE LT64(Sub64(allbits, xp), s.mag)

\* the last Step ran an instruction that came to add its offset to XP, and
\* the sum overflowed
OverflowCase ==
    /\ Overflows(Add64(last.pre.XP, U64(last.op.Len)), u2s(last.op.Imm0))
    /\ \/ Ran({OpCHOICE, OpJMP, OpCALL})
       \/ /\ Ran({OpCOMMIT, OpPCOMMIT, OpBCOMMIT})
          /\ Len(last.pre.CS) > 0
          /\ last.pre.CS[Len(last.pre.CS)].IsChoice
       \/ Ran({OpTANYB}) /\ LT64(availableBytes(last.pre), last.op.Imm1)
       \/ Ran({OpTSAMEB}) /\ ~matchN(last.pre, Exactly(LowByte(last.op.Imm1)), last.op.Imm2)
       \/ /\ Ran({OpTLITB})
          /\ LT64(last.op.Imm1, U64(Len(P.Literals)))
          /\ ~matchLit(last.pre, P.Literals[ToNat(last.op.Imm1) + 1]).good
       \/ /\ Ran({OpTMATCHB})
          /\ LT64(last.op.Imm1, U64(Len(P.ByteSets)))
          /\ ~matchN(last.pre, P.ByteSets[ToNat(last.op.Imm1) + 1], last.op.Imm2)

EndsWithAna(input) ==
    /\ Len(input) >= 3
    /\ SubSeq(input, Len(input) - 2, Len(input)) = <<97, 110, 97>>

\* what Program.Match of sampleProgram1 has to report for the input
S1Outcome ==
    mode = "done" =>
        /\ result.Success <=> EndsWithAna(I)
        /\ result.Success =>
              LET whole == [S |-> Zero64, E |-> U64(Len(I))]
              IN  /\ R = "SuccessState"
                  /\ result.Captures = <<[Exists |-> TRUE, Solo |-> whole, Multi |-> <<whole>>]>>
        /\ ~result.Success =>
              /\ R = "FailureState"
              /\ result.Captures = <<NoCapture>>

(* C10: scenario 1.  Program.Match of sampleProgram1 (.*ana$) ends for      *)
(* every input, never by an error or a panic; it reports success exactly    *)
(* when the input ends with "ana", and then capture 0 exists with solo      *)
(* (0, |input|) and multi [(0, |input|)]; otherwise R is Failure and no     *)
(* capture is reported.                                                     *)
C10_Scenario1 ==
    /\ [](S1Outcome /\ mode # "crashed" /\ R # "ErrorState")
    /\ <>(mode = "done")

\* a match of an input longer than the literal, found after backtracking
C10_Witness ==
    /\ mode = "done"
    /\ P = sampleProgram1
    /\ Len(I) > 3
    /\ result.Success
    /\ result.Captures[1].Solo.E = U64(Len(I))

----------------------------------------------------------------------------
(* What the claims about the Assembler speak of *)

\* the Offset of the label called name in an assembled program
LabelOffset(prog, name) ==
    LET i == CHOOSE k \in 1..Len(prog.Labels) : prog.Labels[k].Name = name
    IN  prog.Labels[i].Offset

\* a decoded code offset as a signed number
OffsetOf(imm) == IF u2s(imm).neg THEN -ToNat(u2s(imm).mag) ELSE ToNat(u2s(imm).mag)

\* the instruction of item it decodes at its XP with its opcode, and its code
\* offset added to the XP of the following instruction is its label's XP
LandsOnLabel(prog, it) ==
    \E d \in {DecodeAt(prog, it.XP)} :
        /\ d.Err = "nil"
        /\ d.Code = it.Code
        /\ Small(u2s(d.Imm0).mag)
        /\ it.XP + d.Len + OffsetOf(d.Imm0) = LabelOffset(prog, it.Ref)

(* C2: assembler fixed point.  After Finish, every instruction that refers  *)
(* to a label decodes at its XP, and its decoded code offset added to the   *)
(* XP of the instruction that follows it is the XP of the label: forward    *)
(* and backward, overlapping and nested, at every width of the offset.      *)
C2_FixedPoint ==
    apc = "done" =>
        \A id \in 1..Len(asm.Items) :
            asm.Items[id].Ref # "" => LandsOnLabel(aProg, asm.Items[id])

----------------------------------------------------------------------------
(* What the claims about scenario 2 speak of *)

\* the k for which input is 'b', k times "an", 'a'; -1 when there is none
AnCount(input) ==
    LET n == Len(input)
        k == (n - 2) \div 2
    IN  IF /\ n >= 2
           /\ n % 2 = 0
           /\ input[1] = 98
           /\ input[n] = 97
           /\ \A i \in 1..k : input[2 * i] = 97 /\ input[2 * i + 1] = 110
        THEN k ELSE -1

\* what Program.Match of sampleProgram2 has to report for the input
S2Outcome ==
    mode = "done" =>
        /\ result.Success <=> AnCount(I) >= 0
        /\ result.Success =>
              LET k == AnCount(I)
                  whole == [S |-> Zero64, E |-> U64(Len(I))]
                  pairs == [i \in 1..k |-> [S |-> U64(2 * i - 1), E |-> U64(2 * i + 1)]]
              IN  /\ R = "SuccessState"
                  /\ Len(result.Captures) = 2
                  /\ result.Captures[1] = [Exists |-> TRUE, Solo |-> whole, Multi |-> <<whole>>]
                  /\ k = 0 => ~result.Captures[2].Exists /\ result.Captures[2].Multi = <<>>
                  /\ k > 0 => result.Captures[2] =
                                 [Exists |-> TRUE, Solo |-> pairs[k], Multi |-> pairs]
        /\ ~result.Success => R = "FailureState"

(* C11: scenario 2.  Program.Match of sampleProgram2 (^b(an)*a$) ends for   *)
(* every input, never by an error or a panic; it reports success exactly    *)
(* when the input is 'b', k >= 0 times "an", 'a'; then capture 0 is         *)
(* (0, |input|), and capture 1 is absent when k = 0 and otherwise has multi *)
(* [(1,3), (3,5), ..., (2k-1, 2k+1)] and solo the last of them; every other *)
(* input ends with R Failure.                                               *)
C11_Scenario2 ==
    /\ [](S2Outcome /\ mode # "crashed" /\ R # "ErrorState")
    /\ <>(mode = "done")

\* "banana": two repetitions, capture 1 reported with both pairs
C11_Witness ==
    /\ mode = "done"
    /\ P = sampleProgram2
    /\ I = <<98, 97, 110, 97, 110, 97>>
    /\ result.Success
    /\ Len(result.Captures[2].Multi) = 2

----------------------------------------------------------------------------
(* What the claims about the immediates speak of *)

\* the 64-bit value that data stands for: zero-extended, or sign-extended
\* from the top bit of its last byte when sgn
Extend(data, sgn) ==
    [i \in 1..8 |-> IF i <= Len(data) THEN data[i]
                    ELSE IF sgn /\ data[Len(data)] >= 128 THEN 255 ELSE 0]

\* ImmMeta.Encode has been called on a slot that is present
EncodedPresent == fn = "ImmMeta" /\ res.at # "none" /\ IsPresent(arg.m, arg.v)

(* C12: immediate width selection.  For a present immediate ImmMeta.Encode  *)
(* gives the first n little-endian bytes of the value, n in {1, 2, 4, 8},   *)
(* which extended by the slot's rule (zero for unsigned, the top bit of the *)
(* last byte for signed) are the value again; no narrower width of the      *)
(* value extends to it, nor decodes to it.                                  *)
C12_WidthSelection ==
    EncodedPresent =>
        LET n == Len(res.bytes)
            sgn == Signed(arg.m.Type)
        IN  /\ n \in {1, 2, 4, 8}
            /\ res.bytes = SubSeq(arg.v, 1, n)
            /\ Extend(res.bytes, sgn) = arg.v
            /\ \A w \in {1, 2, 4} :
                  w < n => /\ Extend(SubSeq(arg.v, 1, w), sgn) # arg.v
                           /\ ImmDecode(arg.m, SubSeq(arg.v, 1, w)).value # arg.v

\* 0x80 in a signed slot takes two bytes, 80 00
C12_Witness ==
    /\ EncodedPresent
    /\ Signed(arg.m.Type)
    /\ arg.v = U64(128)
    /\ res.bytes = <<128, 0>>

(* C13: default omission.  A slot encodes to no bytes exactly when it is    *)
(* absent, or optional with a value equal to its default: the packed        *)
(* default byte, zero-extended for an unsigned slot and sign-extended for a *)
(* signed one.  A required slot encodes to at least one byte.               *)
C13_DefaultOmission ==
    fn = "ImmMeta" /\ res.at # "none" =>
        /\ res.bytes = <<>> <=>
              \/ arg.m.Type = "ImmNone"
              \/ /\ ~arg.m.Required
                 /\ arg.v = Extend(<<arg.m.PackedDefault>>, Signed(arg.m.Type))
        /\ arg.m.Type # "ImmNone" /\ arg.m.Required => Len(res.bytes) >= 1

\* a signed slot with default 0xff omits -1
C13_Witness ==
    /\ fn = "ImmMeta"
    /\ res.at # "none"
    /\ arg.m = optional("ImmSint", 255)
    /\ arg.v = allbits
    /\ res.bytes = <<>>

----------------------------------------------------------------------------
(* What the claims about Op.Decode speak of: the header of the instruction  *)
(* at address p of a stream, read as the instruction format lays it out     *)

HdrLong(s, p) == s[p + 1] >= 128
HdrLen(s, p) == IF HdrLong(s, p) THEN 2 ELSE 1
HdrComplete(s, p) == p < Len(s) /\ p + HdrLen(s, p) <= Len(s)

\* the opcode number
HdrCode(s, p) ==
    IF HdrLong(s, p) THEN (s[p + 1] % 128) \div 2 ELSE (s[p + 1] \div 16) % 8

\* the width codes of the three slots
HdrWidthCodes(s, p) ==
    IF HdrLong(s, p)
    THEN <<(s[p + 1] % 2) * 4 + (s[p + 2] \div 64), (s[p + 2] \div 8) % 8, s[p + 2] % 8>>
    ELSE <<(s[p + 1] \div 4) % 4, s[p + 1] % 4, 0>>

WidthTable == <<0, 1, 2, 4, 8>>

HdrCodesValid(s, p) == \A k \in 1..3 : HdrWidthCodes(s, p)[k] <= 4

\* the widths in bytes of the three slots
HdrWidths(s, p) == [k \in 1..3 |-> WidthTable[HdrWidthCodes(s, p)[k] + 1]]

\* header and immediates
HdrTotal(s, p) ==
    HdrLen(s, p) + HdrWidths(s, p)[1] + HdrWidths(s, p)[2] + HdrWidths(s, p)[3]

\* the header and the immediates it announces lie within the stream
WholeInstruction(s, p) ==
    /\ HdrComplete(s, p)
    /\ HdrCodesValid(s, p)
    /\ p + HdrTotal(s, p) <= Len(s)

\* the declaration of slot k of opcode a
Slot(a, k) == <<Meta(a).Imm0, Meta(a).Imm1, Meta(a).Imm2>>[k]

\* what is wrong with slot k of the instruction, "nil" if nothing is
SlotFault(s, p, k) ==
    LET m == Slot(HdrCode(s, p), k)
        w == HdrWidths(s, p)[k]
    IN  IF m.Type = "ImmNone" /\ w > 0 THEN "ErrUnexpectedImmediate"
        ELSE IF m.Type # "ImmNone" /\ m.Required /\ w = 0 THEN "ErrMissingImmediate"
        ELSE "nil"

Decoded == fn = "Op.Decode" /\ res.at = "decoded"

(* C14: decoder slot validation.  For a whole instruction with a legal      *)
(* opcode, a slot declared absent with a width above zero is                *)
(* ErrUnexpectedImmediate and a slot declared required with width zero is   *)
(* ErrMissingImmediate; Decode fails with the fault of the first slot that  *)
(* has one, and it succeeds when no slot has one: an optional slot of       *)
(* width zero is accepted.                                                  *)
C14_SlotValidation ==
    Decoded /\ WholeInstruction(arg.stream, ToNat(arg.xp))
            /\ HdrCode(arg.stream, ToNat(arg.xp)) \in LegalCodes =>
        LET s == arg.stream
            p == ToNat(arg.xp)
            faulty == {k \in 1..3 : SlotFault(s, p, k) # "nil"}
        IN  IF faulty = {} THEN res.dec.Err = "nil"
            ELSE \E k \in faulty :
                    /\ \A j \in faulty : k <= j
                    /\ res.dec.Err = SlotFault(s, p, k)

\* slot 0 is required and has width zero, slot 1 is absent and has a width
C14_Witness ==
    /\ Decoded
    /\ WholeInstruction(arg.stream, ToNat(arg.xp))
    /\ HdrCode(arg.stream, ToNat(arg.xp)) \in LegalCodes
    /\ SlotFault(arg.stream, ToNat(arg.xp), 1) = "ErrMissingImmediate"
    /\ SlotFault(arg.stream, ToNat(arg.xp), 2) = "ErrUnexpectedImmediate"
    /\ res.dec.Err = "ErrMissingImmediate"

(* C15: decoder stream validation.  Decode at an address at or beyond the   *)
(* end of the stream returns EOF; a long header without its second byte is  *)
(* ErrUnexpectedEOF; a width code of 5, 6 or 7 is ErrBadImmediateLen;       *)
(* immediates running past the end of the stream are ErrUnexpectedEOF; an   *)
(* opcode number without a mnemonic is ErrUnknownOpcode, and Len is then    *)
(* the header plus the immediates; the XP reported is always the start      *)
(* address of the instruction.                                              *)
C15_StreamValidation ==
    Decoded =>
        LET s == arg.stream
            p == ToNat(arg.xp)
            d == res.dec
        IN  /\ d.XP = arg.xp
            /\ p >= Len(s) => d.Err = "EOF"
            /\ p < Len(s) /\ ~HdrComplete(s, p) => d.Err = "ErrUnexpectedEOF"
            /\ HdrComplete(s, p) /\ ~HdrCodesValid(s, p) => d.Err = "ErrBadImmediateLen"
            /\ HdrComplete(s, p) /\ HdrCodesValid(s, p) /\ p + HdrTotal(s, p) > Len(s)
                    => d.Err = "ErrUnexpectedEOF"
            /\ WholeInstruction(s, p) /\ HdrCode(s, p) \notin LegalCodes
                    => d.Err = "ErrUnknownOpcode" /\ d.Len = HdrTotal(s, p)

\* an unknown opcode in the long form whose immediates were consumed
C15_Witness ==
    /\ Decoded
    /\ WholeInstruction(arg.stream, ToNat(arg.xp))
    /\ HdrLong(arg.stream, ToNat(arg.xp))
    /\ res.dec.Err = "ErrUnknownOpcode"
    /\ res.dec.Len = 2 + 8 + 8 + 8

----------------------------------------------------------------------------
(* What the claims about byteset speak of *)

\* { b | Match(b) }
ByteSetOf(m) == {b \in 0..255 : Match(m, b)}

\* a byte matched by two children of a union
SharedByte(m) ==
    /\ m.kind = "or"
    /\ \E i, j \in 1..Len(m.List) :
        i < j /\ \E b \in 0..255 : Match(m.List[i], b) /\ Match(m.List[j], b)

(* C16: ForEach enumeration.  For every Matcher, nested ones included,      *)
(* ForEach calls f with strictly ascending bytes, so each byte once, and    *)
(* the bytes it calls f with are the bytes that Match accepts; a union      *)
(* calls f once for a byte that several of its children match.              *)
C16_ForEach ==
    fn = "Matcher" /\ res.at = "ForEach" =>
        /\ \A i \in 1..(Len(res.bytes) - 1) : res.bytes[i] < res.bytes[i + 1]
        /\ {res.bytes[i] : i \in 1..Len(res.bytes)} = ByteSetOf(arg)

\* a union of a union and a set with bytes in common, below a negation's
\* sibling: three bytes matched twice
C16_Witness ==
    /\ fn = "Matcher"
    /\ res.at = "ForEach"
    /\ arg = Or(<<Or(<<SparseSet({1, 32, 255}), Exactly(255)>>), DenseSet({0, 31, 32, 255})>>)
    /\ SharedByte(arg)
    /\ res.bytes = <<0, 1, 31, 32, 255>>

(* C17: Optimize preserves the byte set.  The Matcher that Optimize         *)
(* returns matches the bytes the receiver matched before the call, and the  *)
(* receiver matches them after the call.                                    *)
C17_OptimizePreserves ==
    fn = "Matcher" /\ res.at = "Optimize" =>
        /\ ByteSetOf(res.ret) = ByteSetOf(arg)
        /\ ByteSetOf(res.self) = ByteSetOf(arg)

\* the negation of an intersection that matches two bytes: Optimize rewrites
\* the receiver's Inner and returns a third Matcher
C17_Witness ==
    /\ fn = "Matcher"
    /\ res.at = "Optimize"
    /\ arg.kind = "not"
    /\ arg.Inner.kind = "and"
    /\ Cardinality(ByteSetOf(arg.Inner)) = 2
    /\ res.ret.kind = "dense"
    /\ res.self # arg
    /\ res.ret # arg
    /\ res.ret # res.self

(* C18: Ranges normalisation.  The list that Ranges stores has only         *)
(* intervals with Lo <= Hi, is sorted by Lo, has no two intervals that      *)
(* overlap or are adjacent (r.Hi + 1 < s.Lo for consecutive r, s), and      *)
(* matches the union of the non-empty Range values given.                   *)
C18_Normalised ==
    fn = "Ranges" /\ res.at = "Ranges" =>
        LET rs == res.ret.Ranges
        IN  /\ \A i \in 1..Len(rs) : rs[i].Lo <= rs[i].Hi
            /\ \A i \in 1..(Len(rs) - 1) : rs[i].Lo <= rs[i + 1].Lo
            /\ \A i \in 1..(Len(rs) - 1) : rs[i].Hi + 1 < rs[i + 1].Lo
            /\ ByteSetOf(res.ret) =
                    UNION { arg[i].Lo..arg[i].Hi : i \in 1..Len(arg) }

\* what holds of the stored list: the ranges are apart but may be adjacent
C18_Disjoint ==
    fn = "Ranges" /\ res.at = "Ranges" =>
        LET rs == res.ret.Ranges
        IN  /\ \A i \in 1..Len(rs) : rs[i].Lo <= rs[i].Hi
            /\ \A i \in 1..(Len(rs) - 1) : rs[i].Hi < rs[i + 1].Lo
            /\ ByteSetOf(res.ret) =
                    UNION { arg[i].Lo..arg[i].Hi : i \in 1..Len(arg) }

----------------------------------------------------------------------------
(* What the claim about the captures speaks of *)

Greatest(s) == CHOOSE x \in s : \A y \in s : y <= x

\* the places before j of the start entries and of the end entries of index k
StartsBefore(ks, k, j) == {i \in 1..(j - 1) : ks[i].Index = k /\ ~ks[i].IsEnd}
EndsBefore(ks, k, j) == {i \in 1..(j - 1) : ks[i].Index = k /\ ks[i].IsEnd}

\* the places of the end entries of index k, in KS order
EndsOf(ks, k) ==
    SelectSeq([i \in 1..Len(ks) |-> i], LAMBDA j : ks[j].Index = k /\ ks[j].IsEnd)

\* the start entry of index k before place j that no end entry has closed
HasPending(ks, k, j) ==
    /\ StartsBefore(ks, k, j) # {}
    /\ \A e \in EndsBefore(ks, k, j) : e < Greatest(StartsBefore(ks, k, j))

\* for every capture index: Exists iff it has an end entry, Multi has one
\* pair for each of its end entries in KS order, ending where the entry
\* says and starting as Start(ks, k, j) allows, and Solo is the last pair
HarvestedAs(Start(_, _, _, _)) ==
    \A n \in 1..Len(res.Captures) :
        LET k == U64(n - 1)
            ends == EndsOf(arg.KS, k)
            c == res.Captures[n]
        IN  /\ c.Exists <=> ends # <<>>
            /\ Len(c.Multi) = Len(ends)
            /\ \A p \in 1..Len(ends) :
                /\ c.Multi[p].E = arg.KS[ends[p]].DP
                /\ Start(arg.KS, k, ends[p], c.Multi[p].S)
            /\ ends # <<>> => c.Solo = c.Multi[Len(c.Multi)]

\* the most recent start entry of the index, whenever there is one
MostRecentStart(ks, k, j, s) ==
    StartsBefore(ks, k, j) # {} => s = ks[Greatest(StartsBefore(ks, k, j))].DP

\* the pending start: the most recent start entry if no end entry has closed
\* it, and 0 otherwise
PendingStart(ks, k, j, s) ==
    s = IF HasPending(ks, k, j) THEN ks[Greatest(StartsBefore(ks, k, j))].DP ELSE Zero64

----------------------------------------------------------------------------
(* What the claim about ordinary failure speaks of *)

\* the last Step ran FAIL2X with a choice frame on top of CS
Fail2XCase ==
    /\ Ran({OpFAIL2X})
    /\ Len(last.pre.CS) > 0
    /\ last.pre.CS[Len(last.pre.CS)].IsChoice

\* the last Step ran GIVEUP, or it called fail() with no choice frame on CS
GiveUpCase ==
    \/ Ran({OpGIVEUP})
    \/ FailCase /\ TopChoice(last.pre.CS) = 0
    \/ Fail2XCase /\ TopChoice(SubSeq(last.pre.CS, 1, Len(last.pre.CS) - 1)) = 0

(* C20: ordinary failure is not an error.  GIVEUP, and FAIL, a match        *)
(* instruction that does not match or the fail() of FAIL2X run with no      *)
(* choice frame on CS, make Step return no error (Run goes on to return     *)
(* nil) and leave R = Failure and KS empty; Match on an Execution that      *)
(* ended in Failure reports Success = false and no capture.                 *)
C20_FailureIsNoError ==
    /\ GiveUpCase =>
        /\ R = "FailureState"
        /\ KS = <<>>
        /\ mode \in {"idle", "inRun"}
        /\ mode = "idle" => ret = Nil
    /\ (caller = "Match" /\ mode = "done" /\ R = "FailureState") =>
        /\ result.done
        /\ ~result.Success
        /\ \A k \in 1..Len(result.Captures) : result.Captures[k] = NoCapture

\* a match instruction failed with captures on KS, call frames only on CS
C20_Witness ==
    /\ FailCase
    /\ ~Ran({OpFAIL})
    /\ TopChoice(last.pre.CS) = 0
    /\ Len(last.pre.CS) > 0
    /\ R = "FailureState"
    /\ KS = <<>>

\* Match has reported a failure
MatchReportedFailure ==
    /\ caller = "Match"
    /\ mode = "done"
    /\ R = "FailureState"
    /\ ~result.Success

----------------------------------------------------------------------------
(* What the claims about the width of a jump speak of *)

\* Finish has returned a program of a jump, K >= 0 NOPs and the label
JumpAssembled ==
    /\ apc = "done"
    /\ NumJumps = 1
    /\ Len(asm.List) = (IF NumNopRuns = 1 THEN 3 ELSE 2)

\* the jump comes first and the label last
ForwardJump == JumpAssembled /\ asm.Items[asm.List[1]].IsOp

\* the label comes first and the jump last
BackwardJump == JumpAssembled /\ ~asm.Items[asm.List[1]].IsOp

\* K, the number of NOPs between the two
NopsBetween == IF Len(asm.List) = 3 THEN asm.Items[asm.List[2]].Rep ELSE 0

\* the JMP as Finish has put it into the program: its XP and its bytes
JmpXP == IF asm.Items[asm.List[1]].IsOp THEN 0 ELSE NopsBetween
JmpBytes == aProg.Chunks[Len(aProg.Chunks)].Bytes
FirstBytes == aProg.Chunks[1].Bytes

\* the code offset that Op.Decode reads from the JMP in the program
JmpOffset == OffsetOf(DecodeAt(aProg, JmpXP).Imm0)

(* C21: forward jump width boundary.  JMP L, K NOPs and the label L are     *)
(* assembled, for 0 <= K <= 127, to the 3-byte JMP 90 40 kk with the 8-bit  *)
(* offset K and L at offset K+3, and for 128 <= K <= 32767 to a 4-byte JMP  *)
(* with the 16-bit offset K and L at offset K+4.                            *)
C21_ForwardWidth ==
    ForwardJump /\ NopsBetween <= 32767 =>
        /\ JmpOffset = NopsBetween
        /\ IF NopsBetween <= 127
           THEN /\ FirstBytes = <<144, 64, NopsBetween>>
                /\ LabelOffset(aProg, "L0") = NopsBetween + 3
           ELSE /\ FirstBytes =
                      <<144, 128, NopsBetween % 256, NopsBetween \div 256>>
                /\ LabelOffset(aProg, "L0") = NopsBetween + 4

\* the first K that needs the 16-bit offset has been assembled
C21_Witness ==
    /\ ForwardJump
    /\ NopsBetween = 128
    /\ Len(FirstBytes) = 4
    /\ LabelOffset(aProg, "L0") = 132

\* the last K that fits the 8-bit offset has been assembled
ForwardAt127 ==
    /\ ForwardJump
    /\ NopsBetween = 127
    /\ FirstBytes = <<144, 64, 127>>

(* C22: backward jump width boundary.  The label L, K NOPs and JMP L are    *)
(* assembled, for 0 <= K <= 125, to a 3-byte JMP with the 8-bit offset      *)
(* -(K+3) (90 40 fd for K = 0, offset byte 80 for K = 125), and for         *)
(* K = 126 to the 4-byte JMP 90 80 7e ff with the 16-bit offset -130; the   *)
(* offset is minus the distance from the end of the JMP back to offset 0.   *)
C22_BackwardWidth ==
    BackwardJump /\ NopsBetween <= 126 =>
        /\ JmpOffset = -(NopsBetween + Len(JmpBytes))
        /\ LabelOffset(aProg, "L0") = 0
        /\ IF NopsBetween <= 125
           THEN JmpBytes = <<144, 64, 256 - (NopsBetween + 3)>>
           ELSE JmpBytes = <<144, 128, 126, 255>>

\* the last K whose backward offset fits 8 bits has been assembled
C22_Witness ==
    /\ BackwardJump
    /\ NopsBetween = 125
    /\ JmpBytes = <<144, 64, 128>>

\* the first K whose backward offset needs 16 bits has been assembled
BackwardAt126 ==
    /\ BackwardJump
    /\ NopsBetween = 126
    /\ Len(JmpBytes) = 4

----------------------------------------------------------------------------
(* What the claim about the label table speaks of *)

\* Finish has returned a program with two labels or more
LabelsAssembled == apc = "done" /\ Len(aProg.Labels) >= 2

\* two labels at one address, the later emitted one the public one
PrivateThenPublic ==
    /\ LabelsAssembled
    /\ \E i \in 1..(Len(aProg.Labels) - 1) :
        /\ aProg.Labels[i].Offset = aProg.Labels[i + 1].Offset
        /\ ~aProg.Labels[i].Public
        /\ aProg.Labels[i + 1].Public

(* C23: label table order.  In the Program that Finish returns, Labels is   *)
(* sorted by Labels.Less: by offset, at equal offsets public labels before  *)
(* private ones, at equal visibility by ascending name; whatever the order  *)
(* the labels were emitted in.                                              *)
C23_LabelOrder ==
    apc = "done" =>
        \A i, j \in 1..Len(aProg.Labels) :
            i < j => Less(aProg.Labels[i], aProg.Labels[j])

\* Labels is in the order of emission, hence of ascending offset
LabelsByOffset ==
    apc = "done" =>
        \A i, j \in 1..Len(aProg.Labels) :
            i < j => aProg.Labels[i].Offset <= aProg.Labels[j].Offset

----------------------------------------------------------------------------
(* What the claim about sharing a Program speaks of *)

\* the k-th Execution has come to its end, or its Step has panicked
Ended(k) == res.xs[k].R # "RunningState" \/ res.ret[k].type = "panic"

\* the end that Run comes to on an Execution of its own
Alone(k) == Run(Exec(arg.P, arg.I[k]), MaxAloneSteps)

(* C24: program sharing.  No Step of an Execution changes the Program or    *)
(* the input; and of two Executions that Exec made on one Program, stepped  *)
(* in any interleaving, each ends in the state, with the DP and the KS (and *)
(* the XP and the CS), that Run gives it when it runs alone.                *)
C24_Sharing ==
    fn = "Exec" =>
        /\ res.P = arg.P
        /\ res.I = arg.I
        /\ \A k \in 1..2 :
            Ended(k) => /\ Own(Alone(k).x) = res.xs[k]
                        /\ (Alone(k).ret.type = "panic") = (res.ret[k].type = "panic")

\* both Executions have ended, one in Success with a capture on KS, the
\* other in Failure
C24_Witness ==
    /\ fn = "Exec"
    /\ res.xs[1].R = "SuccessState"
    /\ Len(res.xs[1].KS) > 0
    /\ res.xs[2].R = "FailureState"

\* one Execution has ended while the other is in the middle of its run
EndedBesideRunning ==
    /\ fn = "Exec"
    /\ Ended(1)
    /\ ~Ended(2)
    /\ Len(res.xs[2].CS) > 0

----------------------------------------------------------------------------
(* What the claims about the growth of KS speak of *)

\* the last call was a Step of a running Execution
Stepped == last.kind = "Step" /\ last.pre.R = "RunningState"

\* s is t with n entries appended
Extends(s, t, n) == Len(s) = Len(t) + n /\ SubSeq(s, 1, Len(t)) = t

\* the opcodes of the instructions that call fail()
FailingCodes == {OpFAIL, OpANYB, OpSAMEB, OpLITB, OpMATCHB, OpFAIL2X}

\* the last Step took frames off CS down to a choice frame, and KS is the
\* prefix of the former KS that has the length this frame saved
CutBack ==
    /\ Len(CS) < Len(last.pre.CS)
    /\ CS = SubSeq(last.pre.CS, 1, Len(CS))
    /\ last.pre.CS[Len(CS) + 1].IsChoice
    /\ Len(last.pre.CS[Len(CS) + 1].KS) <= Len(last.pre.KS)
    /\ KS = SubSeq(last.pre.KS, 1, Len(last.pre.CS[Len(CS) + 1].KS))

(* C25: KS growth discipline.  A Step that leaves R = Running leaves KS as  *)
(* it was, or has appended one entry (BCAP, ECAP) or two (FCAP) to it with  *)
(* the earlier entries unchanged, or has cut it back to the prefix whose    *)
(* length is the depth saved in a choice frame that this Step popped        *)
(* (fail(), BCOMMIT).                                                       *)
C25_KSGrowth ==
    (Stepped /\ R = "RunningState") =>
        \/ KS = last.pre.KS
        \/ Ran({OpBCAP, OpECAP}) /\ Extends(KS, last.pre.KS, 1)
        \/ Ran({OpFCAP}) /\ Extends(KS, last.pre.KS, 2)
        \/ Ran(FailingCodes \cup {OpBCOMMIT}) /\ CutBack

\* fail() has undone a capture: KS is shorter than before and not empty
C25_Witness ==
    /\ FailCase
    /\ R = "RunningState"
    /\ CutBack
    /\ 0 < Len(KS)
    /\ Len(KS) < Len(last.pre.KS)

\* BCOMMIT has undone a capture
BCommitCutBack ==
    /\ Ran({OpBCOMMIT})
    /\ R = "RunningState"
    /\ CutBack
    /\ Len(KS) < Len(last.pre.KS)

----------------------------------------------------------------------------
(* What the claim about capture indexes speaks of *)

\* the last Step ran a capture instruction whose index is no capture's
BadCaptureIndex ==
    /\ Ran({OpFCAP, OpBCAP, OpECAP})
    /\ ~LT64(last.op.Imm0, U64(Len(P.Captures)))

(* C26: capture index invariant.  Every entry of KS has an Index below the  *)
(* number of the Program's captures; FCAP, BCAP or ECAP with an index that  *)
(* is not below it append nothing and end the execution with the runtime    *)
(* error ErrIndexRange and R = Error, without failing or backtracking; so   *)
(* the harvest of Match never meets an index out of range.                  *)
C26_CaptureIndex ==
    /\ \A k \in 1..Len(KS) : LT64(KS[k].Index, U64(Len(P.Captures)))
    /\ BadCaptureIndex =>
        /\ R = "ErrorState"
        /\ KS = <<>>
        /\ ret = RuntimeError("ErrIndexRange", last.op.XP, last.pre.DP)
        /\ DP = last.pre.DP
        /\ CS = last.pre.CS
    /\ result.done => ~result.panic

\* a capture instruction with an index out of range ran while captures
\* were on KS and a choice frame on CS
C26_Witness ==
    /\ BadCaptureIndex
    /\ Len(last.pre.KS) > 0
    /\ TopChoice(last.pre.CS) > 0
    /\ R = "ErrorState"

----------------------------------------------------------------------------
(* What the claim about jump targets speaks of *)

RECURSIVE InstrStarts(_, _)
\* the addresses at which the instructions of bytes start, decoding one
\* after the other from xp on
InstrStarts(bytes, xp) ==
    IF xp >= Len(bytes) THEN {xp}
    ELSE LET d == OpDecode(bytes, U64(xp))
         IN  IF d.Err # "nil" THEN {xp}
             ELSE {xp} \cup InstrStarts(bytes, xp + d.Len)

\* xp is the start of an instruction of the Program, or its end
ValidTarget(p, xp) ==
    /\ Small(xp)
    /\ ToNat(xp) \in InstrStarts(p.Bytes, 0) \cup {Len(p.Bytes)}

\* the last call was a Step of a running Execution whose XP was past the
\* end of the Program
SteppedPastEnd ==
    /\ Stepped
    /\ Small(last.pre.XP) => ToNat(last.pre.XP) > Len(P.Bytes)

(* C27: invalid jump targets surface as decode errors.  When XP has been    *)
(* set to an address that is neither the start of an instruction nor the    *)
(* end of the Program - one past the end, for example - the Step at that    *)
(* address returns a decode error and makes R Error; it does not end the    *)
(* execution in Success.                                                    *)
C27_InvalidTarget ==
    (Stepped /\ ~ValidTarget(P, last.pre.XP)) =>
        /\ R = "ErrorState"
        /\ ret.type = "disassemble"

\* a Step at an address past the end of the Program has ended in Success
PastEndSucceeds ==
    /\ SteppedPastEnd
    /\ R = "SuccessState"
    /\ ret = Nil

\* a Step at an address inside an instruction has run what it found there
MidInstructionRuns ==
    /\ Stepped
    /\ ~ValidTarget(P, last.pre.XP)
    /\ ~SteppedPastEnd
    /\ last.op.Err = "nil"

\* a Step at the end of the Program ends in Success, and a Step at an
\* address past it does just the same
EndIsSuccess ==
    (Stepped /\ Small(last.pre.XP) /\ ToNat(last.pre.XP) >= Len(P.Bytes)) =>
        /\ R = "SuccessState"
        /\ ret.type \in {"nil", "none"}

----------------------------------------------------------------------------
(* What the claim about the decoded immediate speaks of *)

\* ImmMeta.Decode has been called on the bytes Encode gave, without error
DecodedSlot == fn = "ImmMeta" /\ res.at = "decoded" /\ res.dec.err = "nil"

(* C28: decoded immediate value.  Decode of no bytes gives, for an optional *)
(* slot, the slot's default; Decode of w > 0 bytes gives their little-endian *)
(* value, zero-extended to 64 bits for an unsigned slot and sign-extended   *)
(* from the top bit of the last byte for a signed one, whatever the slot's  *)
(* default is.                                                              *)
C28_DecodedValue ==
    DecodedSlot =>
        IF Len(res.bytes) = 0
        THEN arg.m.Type # "ImmNone" /\ ~arg.m.Required =>
                res.dec.value = Extend(<<arg.m.PackedDefault>>, Signed(arg.m.Type))
        ELSE res.dec.value = Extend(res.bytes, Signed(arg.m.Type))

\* the bytes of a present slot have been decoded to a value that has bits
\* of the default in it
DefaultLeaksIn ==
    /\ DecodedSlot
    /\ Len(res.bytes) > 0
    /\ res.dec.value # Extend(res.bytes, Signed(arg.m.Type))

\* the decoded value of a slot whose default is zero is that of its bytes
ZeroDefaultDecodes ==
    (DecodedSlot /\ Len(res.bytes) > 0 /\ arg.m.PackedDefault = 0) =>
        res.dec.value = Extend(res.bytes, Signed(arg.m.Type))

----------------------------------------------------------------------------
(* What the claim about the header layout speaks of *)

\* the encoder has written the instruction cOp into cBytes
Encoded == cpc \in {"encoded", "decoded"}

\* the bytes the three immediates of cOp take when encoded on their own
SlotLens ==
    <<Len(ImmEncode(Meta(cOp.Code).Imm0, cOp.Imm0)),
      Len(ImmEncode(Meta(cOp.Code).Imm1, cOp.Imm1)),
      Len(ImmEncode(Meta(cOp.Code).Imm2, cOp.Imm2))>>

\* what the spec says the one-byte form is for
FitsShort ==
    /\ cOp.Code \in 0..7
    /\ SlotLens[3] = 0
    /\ SlotLens[1] <= 4
    /\ SlotLens[2] <= 4

\* the slices of the stream the layout gives to the three slots
SlotBytes(s, p) ==
    LET h == p + HdrLen(s, p)
        w == HdrWidths(s, p)
    IN  <<SubSeq(s, h + 1, h + w[1]),
          SubSeq(s, h + w[1] + 1, h + w[1] + w[2]),
          SubSeq(s, h + w[1] + w[2] + 1, h + w[1] + w[2] + w[3])>>

\* the decoder read the instruction at p of s as the layout says
ReadAsLaidOut(s, p, d) ==
    /\ d.Code = HdrCode(s, p)
    /\ d.Len = HdrTotal(s, p)
    /\ ~HdrLong(s, p) =>
          /\ d.Code \in 0..7
          /\ HdrWidths(s, p)[1] \in {0, 1, 2, 4}
          /\ HdrWidths(s, p)[2] \in {0, 1, 2, 4}
          /\ HdrWidths(s, p)[3] = 0
    /\ HdrLong(s, p) => d.Code \in 0..63
    /\ d.Imm0 = ImmDecode(Slot(d.Code, 1), SlotBytes(s, p)[1]).value
    /\ d.Imm1 = ImmDecode(Slot(d.Code, 2), SlotBytes(s, p)[2]).value
    /\ d.Imm2 = ImmDecode(Slot(d.Code, 3), SlotBytes(s, p)[3]).value

(* C29: header layout.  Decode reads a first byte below 128 as the one-byte *)
(* header [0aaa|bbcc] (opcode 0..7, width codes 0..3 for imm0 and imm1, no  *)
(* imm2) and a first byte from 128 as the two-byte header                   *)
(* [1aaa|aaab][bbcc|cddd] (opcode 0..63, three 3-bit width codes); the      *)
(* width codes 0, 1, 2, 3, 4 stand for 0, 1, 2, 4, 8 bytes, and the         *)
(* immediates lie behind the header in that order with those widths.  The   *)
(* encoder writes the one-byte form exactly when the opcode is in 0..7,     *)
(* imm2 takes no bytes and imm0 and imm1 take at most 4 bytes each, and the *)
(* widths its header announces are the widths of the immediates it wrote.   *)
C29_HeaderLayout ==
    /\ Decoded /\ WholeInstruction(arg.stream, ToNat(arg.xp))
          => ReadAsLaidOut(arg.stream, ToNat(arg.xp), res.dec)
    /\ Encoded =>
          /\ ~HdrLong(cBytes, 0) <=> FitsShort
          /\ HdrCode(cBytes, 0) = cOp.Code
          /\ HdrCodesValid(cBytes, 0)
          /\ HdrWidths(cBytes, 0) = SlotLens
          /\ Len(cBytes) = HdrTotal(cBytes, 0)
    /\ cpc = "decoded" => ReadAsLaidOut(cBytes, 0, cDec)

\* an opcode of the one-byte range written in the two-byte form because an
\* immediate takes 8 bytes, and read back with that width
C29_Witness ==
    /\ cpc = "decoded"
    /\ cOp.Code \in 0..7
    /\ HdrLong(cBytes, 0)
    /\ HdrWidthCodes(cBytes, 0)[1] = 4
    /\ cDec.Len = 10

\* a one-byte header with the width code 3 in both slots, read as 4 bytes each
ShortHeaderRead ==
    /\ Decoded
    /\ WholeInstruction(arg.stream, ToNat(arg.xp))
    /\ ~HdrLong(arg.stream, ToNat(arg.xp))
    /\ HdrWidthCodes(arg.stream, ToNat(arg.xp)) = <<3, 3, 0>>
    /\ res.dec.Len = 9

----------------------------------------------------------------------------
(* What the claim about the snapshots in choice frames speaks of.  A frame  *)
(* of the code holds KS as a slice of the array that x.KS grows in; the     *)
(* frame of the model holds the value KS had when the frame was written.    *)
(* The two agree as long as no entry below a saved depth is written again,  *)
(* that is, as long as every saved KS is a prefix of the current KS.        *)

\* the indexes of the choice frames of cs
ChoiceFrames(cs) == {j \in 1..Len(cs) : cs[j].IsChoice}

\* the saved depths do not decrease from bottom to top, none exceeds |ks|
DepthsOrdered(cs, ks) ==
    /\ \A i, j \in ChoiceFrames(cs) : i < j => Len(cs[i].KS) <= Len(cs[j].KS)
    /\ \A j \in ChoiceFrames(cs) : Len(cs[j].KS) <= Len(ks)

\* every saved KS is the current KS up to the saved depth
SnapshotsArePrefixes(cs, ks) ==
    \A j \in ChoiceFrames(cs) :
        Len(cs[j].KS) <= Len(ks) /\ cs[j].KS = SubSeq(ks, 1, Len(cs[j].KS))

\* the last Step restored a choice frame: fail() found one, or BCOMMIT ran
Restored ==
    /\ R = "RunningState"
    /\ \/ FailCase
       \/ Ran({OpFAIL2X, OpBCOMMIT})

\* KS is what the restored frame saved, and that is the former KS cut to the
\* saved depth
RestoredExactly ==
    /\ CutBack
    /\ KS = last.pre.CS[Len(CS) + 1].KS

\* an execution that has not halted with its KS cleared
KSKept == R \in {"RunningState", "SuccessState"}

(* C30 as stated: in every reachable state the saved KS depths of the       *)
(* choice frames on CS are non-decreasing from bottom to top and none       *)
(* exceeds |KS|; whenever fail() or BCOMMIT restores a choice frame, KS     *)
(* afterwards is the sequence it was when the frame was written.            *)
C30_SnapshotRestores ==
    /\ DepthsOrdered(CS, KS)
    /\ Restored => RestoredExactly

(* C30, amended: choice-frame snapshot restores exactly.  In every          *)
(* reachable state with R = Running or R = Success the saved KS depths of   *)
(* the choice frames on CS are non-decreasing from bottom to top, none      *)
(* exceeds |KS|, and every saved KS is the current KS up to its depth; so   *)
(* whenever fail() or BCOMMIT restores a choice frame, KS afterwards is     *)
(* element for element the sequence it was when that frame was pushed by    *)
(* CHOICE or last rewritten by PCOMMIT.  A Step that halts with an error,   *)
(* and GIVEUP, clear KS and leave the frames of CS with their depths.       *)
C30_RunningSnapshots ==
    /\ KSKept => DepthsOrdered(CS, KS) /\ SnapshotsArePrefixes(CS, KS)
    /\ Restored => RestoredExactly

\* fail() restored the frame that PCOMMIT had rewritten with two captures
\* saved, undoing the capture pushed since
C30_Witness ==
    /\ P.Bytes = <<172, 64, 0, 20, 10, 174, 64, 0, 160, 64, 4, 172, 64, 0, 48, 254, 0>>
    /\ FailCase
    /\ Restored
    /\ RestoredExactly
    /\ Len(KS) = 2
    /\ Len(last.pre.KS) = 3

\* a halted execution whose KS was cleared beneath a choice frame that had
\* saved a capture
ClearedBeneathFrame ==
    /\ R \in {"ErrorState", "FailureState"}
    /\ KS = <<>>
    /\ \E j \in ChoiceFrames(CS) : Len(CS[j].KS) > 0

----------------------------------------------------------------------------
(* What the claims about the single instructions speak of *)

\* the address after the instruction the last Step ran
AfterOp == Add64(last.op.XP, U64(last.op.Len))

\* that address plus the offset in imm0, as a sum of 64-bit words
OffsetTarget == Add64(AfterOp, last.op.Imm0)

\* the last Step started with a choice frame on top of CS
ChoiceOnTop ==
    /\ Len(last.pre.CS) > 0
    /\ last.pre.CS[Len(last.pre.CS)].IsChoice

(* C31: offsets are relative to the end of the instruction.  Where the sum  *)
(* does not overflow, CHOICE pushes the choice frame {XP = address after    *)
(* the CHOICE + off, DP = DP, KS = KS} and goes on at the address after     *)
(* it; CALL pushes a call frame holding the address after the CALL and goes *)
(* on at that address + off; JMP goes on at the address after the JMP +     *)
(* off; none of the three changes DP or KS, and R stays Running.            *)
C31_OffsetsFromEnd ==
    (Ran({OpCHOICE, OpCALL, OpJMP}) /\ ~OverflowCase) =>
        /\ AfterOp = Add64(last.pre.XP, U64(last.op.Len))
        /\ DP = last.pre.DP
        /\ KS = last.pre.KS
        /\ R = "RunningState"
        /\ ret.type # "runtime"
        /\ Ran({OpCHOICE}) =>
              /\ CS = Append(last.pre.CS,
                             ChoiceFrame(last.pre.DP, OffsetTarget, last.pre.KS))
              /\ XP = AfterOp
        /\ Ran({OpCALL}) =>
              /\ CS = Append(last.pre.CS, CallFrame(AfterOp))
              /\ XP = OffsetTarget
        /\ Ran({OpJMP}) =>
              /\ CS = last.pre.CS
              /\ XP = OffsetTarget

\* a backward JMP that is not the first instruction: the address it goes on
\* at is neither its own plus the offset nor the one after it
C31_Witness ==
    /\ Ran({OpJMP})
    /\ ~OverflowCase
    /\ last.op.Imm0 = s2u(-6)
    /\ last.op.XP # Zero64
    /\ XP = Sub64(last.op.XP, U64(3))

\* CALL went forward and left the address behind it on CS
CallWentForward ==
    /\ Ran({OpCALL})
    /\ last.op.Imm0 = U64(2)
    /\ CS[Len(CS)].XP = AfterOp
    /\ XP = Add64(AfterOp, U64(2))

\* CHOICE pushed a frame for an address before its own while captures were on KS
ChoiceBackward ==
    /\ Ran({OpCHOICE})
    /\ ~OverflowCase
    /\ last.op.Imm0 = s2u(-2)
    /\ CS[Len(CS)].XP = last.op.XP
    /\ Len(KS) > 0

\* CS of the last Step's start without its top frame
BelowTop == SubSeq(last.pre.CS, 1, Len(last.pre.CS) - 1)

\* the top frame of CS at the last Step's start
TopFrame == last.pre.CS[Len(last.pre.CS)]

(* C32: PCOMMIT updates in place.  With a choice frame on top of CS (and an *)
(* offset that does not overflow) PCOMMIT leaves the depth of CS and every  *)
(* frame below the top as they were, makes the top frame {XP = address      *)
(* after the PCOMMIT + off, DP = DP, KS = KS}, leaves DP and KS alone and   *)
(* goes on at the next instruction.                                         *)
C32_PCommitInPlace ==
    (Ran({OpPCOMMIT}) /\ ChoiceOnTop /\ ~OverflowCase) =>
        /\ Len(CS) = Len(last.pre.CS)
        /\ SubSeq(CS, 1, Len(CS) - 1) = BelowTop
        /\ CS[Len(CS)] = ChoiceFrame(last.pre.DP, OffsetTarget, last.pre.KS)
        /\ DP = last.pre.DP
        /\ KS = last.pre.KS
        /\ XP = AfterOp
        /\ R = "RunningState"
        /\ ret.type # "runtime"

\* PCOMMIT rewrote a frame that lay above another one, and all three of the
\* frame's fields changed
C32_Witness ==
    /\ Ran({OpPCOMMIT})
    /\ ChoiceOnTop
    /\ ~OverflowCase
    /\ Len(CS) = 2
    /\ CS[2].DP # TopFrame.DP
    /\ CS[2].XP # TopFrame.XP
    /\ CS[2].KS # TopFrame.KS
    /\ CS[2].XP # XP

(* C33: BCOMMIT (positive lookahead).  With a choice frame on top of CS     *)
(* (and an offset that does not overflow) BCOMMIT pops exactly that frame,  *)
(* sets DP to the DP the frame saved and KS to the prefix the frame saved,  *)
(* and goes on at the address after the BCOMMIT + off, whatever the frame's *)
(* alternative address is: what was consumed and captured since the frame   *)
(* was written is given back.                                               *)
C33_BCommitLookahead ==
    (Ran({OpBCOMMIT}) /\ ChoiceOnTop /\ ~OverflowCase) =>
        /\ CS = BelowTop
        /\ DP = TopFrame.DP
        /\ KS = TopFrame.KS
        /\ Len(TopFrame.KS) <= Len(last.pre.KS)
        /\ KS = SubSeq(last.pre.KS, 1, Len(TopFrame.KS))
        /\ XP = OffsetTarget
        /\ R = "RunningState"
        /\ ret.type # "runtime"

\* BCOMMIT gave back a byte and a capture, kept the capture made before the
\* CHOICE, and went on elsewhere than at the frame's alternative
C33_Witness ==
    /\ Ran({OpBCOMMIT})
    /\ ChoiceOnTop
    /\ ~OverflowCase
    /\ LT64(DP, last.pre.DP)
    /\ 0 < Len(KS)
    /\ Len(KS) < Len(last.pre.KS)
    /\ XP # TopFrame.XP

(* C34: FAIL2X (negative lookahead).  With a choice frame on top of CS,     *)
(* FAIL2X discards that frame without restoring it and fails on the rest of *)
(* the stack: execution goes on at the topmost choice frame below it, with  *)
(* that frame's DP, XP and KS depth, the frames from it upwards removed; if *)
(* there is no choice frame below, the execution ends in Failure with CS    *)
(* and KS empty and no error.                                               *)
C34_Fail2X ==
    Fail2XCase =>
        LET j == TopChoice(BelowTop)
        IN  /\ ret.type # "runtime"
            /\ j > 0 =>
                  /\ R = "RunningState"
                  /\ DP = BelowTop[j].DP
                  /\ XP = BelowTop[j].XP
                  /\ Len(BelowTop[j].KS) <= Len(last.pre.KS)
                  /\ KS = SubSeq(last.pre.KS, 1, Len(BelowTop[j].KS))
                  /\ CS = SubSeq(last.pre.CS, 1, j - 1)
            /\ j = 0 =>
                  /\ R = "FailureState"
                  /\ KS = <<>>
                  /\ CS = <<>>
                  /\ DP = last.pre.DP

\* FAIL2X passed over the frame on top, whose DP and XP differ from those
\* of the frame below, went on at the frame below and undid a capture
C34_Witness ==
    /\ Fail2XCase
    /\ TopChoice(BelowTop) > 0
    /\ R = "RunningState"
    /\ DP # TopFrame.DP
    /\ XP # TopFrame.XP
    /\ Len(KS) < Len(last.pre.KS)
    /\ 0 < Len(KS)

\* FAIL2X with one choice frame only: Failure
Fail2XToFailure ==
    /\ Fail2XCase
    /\ TopChoice(BelowTop) = 0
    /\ R = "FailureState"

----------------------------------------------------------------------------
(* What the claim about operands out of range speaks of *)

\* the last Step ran an instruction whose literal or matcher index is beyond
\* the Program's tables
BadIndex ==
    \/ Ran({OpLITB}) /\ ~LT64(last.op.Imm0, U64(Len(P.Literals)))
    \/ Ran({OpTLITB}) /\ ~LT64(last.op.Imm1, U64(Len(P.Literals)))
    \/ Ran({OpMATCHB, OpSPANB}) /\ ~LT64(last.op.Imm0, U64(Len(P.ByteSets)))
    \/ Ran({OpTMATCHB}) /\ ~LT64(last.op.Imm1, U64(Len(P.ByteSets)))

\* the last Step ran RWNDB n or FCAP idx, n with n above DP
BadCount ==
    \/ Ran({OpRWNDB}) /\ LT64(last.pre.DP, last.op.Imm0)
    \/ Ran({OpFCAP}) /\ LT64(last.pre.DP, last.op.Imm1)

\* the execution ended with this runtime error, where it stood
EndedWith(err) ==
    /\ R = "ErrorState"
    /\ ret = RuntimeError(err, last.op.XP, last.pre.DP)
    /\ DP = last.pre.DP
    /\ CS = last.pre.CS
    /\ KS = <<>>

(* C35: operands out of range are program errors, not match failures.  LITB *)
(* and TLITB with a literal index that is no literal's, MATCHB, TMATCHB and *)
(* SPANB with a matcher index that is no matcher's end the execution with   *)
(* R = Error and ErrIndexRange; RWNDB n and FCAP idx, n with n above DP end *)
(* it with ErrCountRange (FCAP with ErrIndexRange when idx is no capture's  *)
(* either).  The error carries the start address of the instruction and the *)
(* current DP; fail() is not called (CS is as it was) and DP does not move. *)
C35_OperandErrors ==
    /\ BadIndex => EndedWith("ErrIndexRange")
    /\ BadCount =>
          IF Ran({OpFCAP}) /\ ~LT64(last.op.Imm0, U64(Len(P.Captures)))
          THEN EndedWith("ErrIndexRange")
          ELSE EndedWith("ErrCountRange")

\* a matcher index out of range met after a byte was consumed, with a choice
\* frame on CS that a fail() would have taken
C35_Witness ==
    /\ BadIndex
    /\ Ran({OpMATCHB, OpSPANB, OpTMATCHB})
    /\ last.pre.DP # Zero64
    /\ TopChoice(last.pre.CS) > 0
    /\ EndedWith("ErrIndexRange")

\* TLITB with a literal index out of range did not take its jump either
TLitBadIndex ==
    /\ Ran({OpTLITB})
    /\ BadIndex
    /\ TopChoice(last.pre.CS) > 0
    /\ EndedWith("ErrIndexRange")

\* RWNDB with a count above DP under a choice frame
RewindBadCount ==
    /\ Ran({OpRWNDB})
    /\ BadCount
    /\ TopChoice(last.pre.CS) > 0
    /\ EndedWith("ErrCountRange")

\* FCAP with a capture index in range and a count above DP
FCapBadCount ==
    /\ Ran({OpFCAP})
    /\ BadCount
    /\ EndedWith("ErrCountRange")

----------------------------------------------------------------------------
(* What the claims about the loops of Fix speak of *)

\* Fix is under way
InFix == apc \in {"reason", "jiggle", "place"}

\* the size of the program as Fix estimates it: len(Bytes) of the fixed
\* items, MaxLength of the others
EstimatedSize(a) == SumSize(a, 0, Len(a.List)).total

\* the MaxLength EmitOp gave the item
FirstMaxLength(item) ==
    Len(OpMetaEncode(Meta(item.Code), Not64(highbit), item.Imm1, item.Imm2))

(* C36: max_length never grows.  In every step of Fix (a round of the first *)
(* or third loop, or the jiggle of one item) the assertion "max length      *)
(* grew" of tryFix does not fail, no item's MaxLength becomes greater than  *)
(* it was, and the estimated size of the program does not grow.             *)
C36_MaxLengthShrinks ==
    [][ InFix =>
          /\ asm'.Panic # "max length grew"
          /\ \A id \in 1..Len(asm.Items) :
                asm'.Items[id].MaxLength <= asm.Items[id].MaxLength
          /\ EstimatedSize(asm') <= EstimatedSize(asm) ]_vars

\* a round of the first loop has lowered the MaxLength of an instruction that
\* it could not fix yet
C36_Witness ==
    /\ apc = "reason"
    /\ \E id \in 1..Len(asm.Items) :
          /\ asm.Items[id].IsOp
          /\ ~asm.Items[id].Fixed
          /\ asm.Items[id].MaxLength < FirstMaxLength(asm.Items[id])

\* every item has its XP and its bytes
AllPlaced ==
    \A i \in 1..Len(asm.List) :
        asm.Items[asm.List[i]].KnownXP /\ asm.Items[asm.List[i]].Fixed

(* C37: Finish terminates with everything placed.  Once Finish is called on *)
(* a list in which every label referred to has been emitted, the three      *)
(* loops of Fix come to an end, no assertion fails, and Finish returns with *)
(* every item KnownXP and Fixed and the work queue empty.                   *)
C37_FinishTerminates ==
    /\ [](apc # "crashed")
    /\ (apc = "reason") ~> (apc = "done" /\ AllPlaced /\ asm.Queue = <<>>)

\* Finish has returned for a full list with two instructions that refer to
\* labels, one forward and one backward
C37_Witness ==
    /\ apc = "done"
    /\ AllPlaced
    /\ Len(asm.List) = MaxItems
    /\ \E p, q \in 1..Len(asm.Items) :
          /\ asm.Items[p].Ref # ""
          /\ asm.Items[q].Ref # ""
          /\ asm.Items[p].Index < asm.Items[asm.LabelsByName[asm.Items[p].Ref]].Index
          /\ asm.Items[q].Index > asm.Items[asm.LabelsByName[asm.Items[q].Ref]].Index

\* the item the jiggle pass is at, 0 when the pass is over
JiggleItem == IF apc = "jiggle" /\ aJ < Len(asm.List) THEN asm.List[aJ + 1] ELSE 0

\* instruction x refers to a label and item y lies between x and that label
Spans(a, x, y) ==
    /\ a.Items[x].Ref # ""
    /\ LET ix == a.Items[x].Index
           il == a.Items[a.LabelsByName[a.Items[x].Ref]].Index
           iy == a.Items[y].Index
       IN  (ix < iy /\ iy < il) \/ (il < iy /\ iy < ix)

\* the offsets already final that were summed over item y
FrozenOver(a, y) == {x \in 1..Len(a.Items) : a.Items[x].Fixed /\ Spans(a, x, y)}

(* C38: jiggle distances stay valid.  When the jiggle pass finalises an     *)
(* instruction that lies between an already final instruction and that      *)
(* instruction's label, the bytes it gets are as many as the MaxLength that *)
(* was summed into the final offset: no instruction shrinks under an offset *)
(* that spans it.                                                           *)
C38_JiggleDistances ==
    [][ (JiggleItem # 0 /\ ~asm.Items[JiggleItem].Fixed /\ FrozenOver(asm, JiggleItem) # {})
            => BytesLen(asm'.Items[JiggleItem]) = asm.Items[JiggleItem].MaxLength ]_vars

\* Finish returned a program in which an instruction shorter than it was
\* taken to be lies under a forward offset
ShrunkUnderOffset ==
    /\ apc = "done"
    /\ \E x, y \in 1..Len(asm.Items) :
          /\ Spans(asm, x, y)
          /\ asm.Items[y].Ref # ""
          /\ asm.Items[x].Index < asm.Items[y].Index
          /\ ~LandsOnLabel(aProg, asm.Items[x])

\* the items of the list in the order of their emission
Emitted(a) == [i \in 1..Len(a.List) |-> a.Items[a.List[i]]]

RECURSIVE EncodedBefore(_, _)
\* the bytes of the instructions emitted before place i of the list
EncodedBefore(a, i) ==
    IF i <= 1 THEN 0
    ELSE EncodedBefore(a, i - 1) +
         (IF a.Items[a.List[i - 1]].IsOp THEN BytesLen(a.Items[a.List[i - 1]]) ELSE 0)

\* the places of the list after place i that hold an instruction
OpsAfter(a, i) == {j \in (i + 1)..Len(a.List) : a.Items[a.List[j]].IsOp}

\* the XP of the first instruction after place i, len(p.Bytes) when none follows
NextOpXP(a, prog, i) ==
    IF OpsAfter(a, i) = {} THEN ChunksLen(prog.Chunks)
    ELSE a.Items[a.List[CHOOSE j \in OpsAfter(a, i) : \A k \in OpsAfter(a, i) : j <= k]].XP

\* the label records of prog in the order of the list's labels
LabelRecords(a) == SelectSeq(Emitted(a), LAMBDA it : ~it.IsOp)

(* C39: placement is contiguous.  In the Program that Finish returns, Bytes *)
(* is the encodings of the emitted instructions one after another in the    *)
(* order of emission; the XP of every item is the sum of the lengths of the *)
(* instructions emitted before it; the Offset of every emitted label is the *)
(* XP of the next instruction emitted after it, the length of Bytes when    *)
(* none follows; a label adds no byte.                                      *)
C39_ContiguousPlacement ==
    apc = "done" =>
        /\ aProg.Chunks = [i \in 1..Len(aProg.Chunks) |->
                              [Bytes |-> SelectSeq(Emitted(asm), LAMBDA it : it.IsOp)[i].Bytes,
                               Rep |-> SelectSeq(Emitted(asm), LAMBDA it : it.IsOp)[i].Rep]]
        /\ Len(aProg.Chunks) = Len(SelectSeq(Emitted(asm), LAMBDA it : it.IsOp))
        /\ ChunksLen(aProg.Chunks) = EncodedBefore(asm, Len(asm.List) + 1)
        /\ \A i \in 1..Len(asm.List) : asm.Items[asm.List[i]].XP = EncodedBefore(asm, i)
        /\ Len(aProg.Labels) = Len(LabelRecords(asm))
        /\ \A i \in 1..Len(asm.List) :
              ~asm.Items[asm.List[i]].IsOp =>
                  /\ BytesLen(asm.Items[asm.List[i]]) = 0
                  /\ LabelOffset(aProg, asm.Items[asm.List[i]].Name) = NextOpXP(asm, aProg, i)

\* Finish returned a program with a label between two instructions, a label
\* after the last instruction, and an instruction whose offset was fixed up
C39_Witness ==
    /\ apc = "done"
    /\ \E i \in 2..Len(asm.List) :
          /\ ~asm.Items[asm.List[i]].IsOp
          /\ asm.Items[asm.List[i]].XP > 0
          /\ OpsAfter(asm, i) # {}
    /\ ~asm.Items[asm.List[Len(asm.List)]].IsOp
    /\ \E id \in 1..Len(asm.Items) : asm.Items[id].Ref # ""

\* the goroutines of forEachUnion that the caller has started
Started == {k \in 1..Len(res.g) : res.g[k].at # "none"}

\* every goroutine was started, has sent all its bytes and closed its channel
AllSentAndClosed ==
    \A k \in 1..Len(arg.ms) : res.g[k].at = "closed" /\ res.g[k].todo = <<>>

\* forEachUnion has returned
UnionReturned == fn = "forEachUnion" /\ res.pc = "done"

(* C40: union enumeration never deadlocks.  For every list of children and  *)
(* every order in which the goroutines and the caller run, forEachUnion     *)
(* returns; when it returns every goroutine has sent all its bytes and      *)
(* closed its channel, none waits at a send; and the bytes f was called     *)
(* with are those of the loop run on its own, whatever the order was.       *)
C40_UnionTerminates ==
    /\ [](UnionReturned =>
            /\ AllSentAndClosed
            /\ res.out = ForEach(Or(arg.ms)))
    /\ (fn = "forEachUnion") ~> UnionReturned

\* forEachUnion has returned from three children after a goroutine was kept
\* waiting at its send: a byte was skipped as seen, and f was called
C40_Witness ==
    /\ UnionReturned
    /\ Len(arg.ms) = MaxChildren
    /\ Len(res.out) >= 3
    /\ \E k \in 1..Len(arg.ms) :
          \E j \in 1..Len(arg.sends[k]) :
              \E l \in 1..(k - 1) : \E n \in 1..Len(arg.sends[l]) :
                  arg.sends[k][j] = arg.sends[l][n]

\* a goroutine waits at its send while the caller receives on another channel
SenderWaits ==
    /\ fn = "forEachUnion"
    /\ res.pc = "recv"
    /\ \E k \in 1..Len(arg.ms) : k # res.i /\ res.g[k].at = "send"

============================================================================
